---- MODULE Spec2Model ----
(***************************************************************************)
(* Model of the mpv IPC client of htpc-overlay (src/src/mpv/mod.rs) and of *)
(* its seek-session state machine.  The client talks to the player over a  *)
(* line stream: every command is a synchronous round trip, property-change *)
(* events arrive unsolicited on the same stream.  The player is the        *)
(* environment: it executes the commands, may refuse them, and emits one   *)
(* property-change event per observer whenever an observed property        *)
(* changes.                                                                *)
(***************************************************************************)
EXTENDS Integers, Sequences, FiniteSets, TLC

VARIABLES
    observed_properties,  \* Mpv.observed_properties: name -> last JSON value
    next_observe_id,      \* Mpv.next_observe_id
    event_buffer,         \* Mpv.event_buffer: events read but not yet handled
    seek_state,           \* Mpv.seek_state: Option<SeekState>; ended is kept as
                          \* the time elapsed since that instant
    socket,               \* lines the player has written and the client has not read
    player,               \* the player: pause flag, position, observers per property
    status,               \* "running", or "panicked" after an unwrap/expect/panic
    result,               \* what the last operation returned: "ok" or "err"
    arg,                  \* the argument of the last step's call, of
                          \* get_property and seek_stateless
    ret,                  \* what get_property returned in the last step
    sent,                 \* the commands written to the player by the last step
    op,                   \* the last step: the client operation, or the
                          \* environment's "tick" or "player_advance"
    nonblocking,          \* the mode of the connection (set_nonblocking)
    io,                   \* the requests written and the responses read by
                          \* the last step, each with the mode it was made in
    handled,              \* the events the last step passed to handle_event
    tracks,               \* Mpv.tracks: the track list as last deserialized
    chapters,             \* Mpv.chapters: the chapter list as last deserialized
    playlist,             \* Mpv.playlist: the playlist as last deserialized
    stream,               \* the connection: "open", "eof" once the player has
                          \* closed it, "error" once reads fail otherwise
    app,                  \* App: initialized, view (kind and submenu), and idle,
                          \* the seconds since Gamepad.last_input
    trace,                \* what the stages of the last App::update did, in order
    fin,                  \* speed/exact just before finish_seek, while the client
                          \* has called nothing since but start_seek
    snap                  \* the player's position/pause just before a start_seek
                          \* with no session, while nothing has happened since
                          \* but a cancel_seek

vars == <<observed_properties, next_observe_id, event_buffer, seek_state,
          socket, player, status, result, arg, ret, sent, op, nonblocking,
          io, handled, tracks, chapters, playlist, stream, app, trace,
          fin, snap>>

---------------------------------------------------------------------------
\* Bounds of the model

\* an ended session is aged for at most MaxTicks ticks of TickSecs seconds
MaxTicks == 3
\* most lines that may sit unhandled in event_buffer and socket together
MaxLines == 3
\* largest observation id the client may hand out
MaxObserveId == 3

\* positions (seconds) the player can be at
Times == {400, 1000}
\* length of the media, in seconds: the last position
Dur == CHOOSE t \in Times : \A u \in Times : u <= t

---------------------------------------------------------------------------
\* JSON values, Option

Bool(b) == [t |-> "bool", b |-> b, n |-> 0, s |-> ""]
Num(n) == [t |-> "num", b |-> FALSE, n |-> n, s |-> ""]
Str(s) == [t |-> "str", b |-> FALSE, n |-> 0, s |-> s]

None == <<>>
Some(x) == <<x>>
IsSome(o) == o # <<>>
Unwrap(o) == o[1]

\* a JSON array of objects, and null
List(items) == [t |-> "list", b |-> FALSE, n |-> 0, s |-> "", l |-> items]
Null == [t |-> "null", b |-> FALSE, n |-> 0, s |-> ""]

\* serde_json::from_value::<bool> / ::<String> / ::<f32> / ::<Time>
FromValue(v, ty) ==
    IF ty = "bool" THEN (IF v.t = "bool" THEN Some(v.b) ELSE None)
    ELSE IF ty = "String" THEN (IF v.t = "str" THEN Some(v.s) ELSE None)
    ELSE (IF v.t = "num" THEN Some(v.n) ELSE None)

---------------------------------------------------------------------------
\* SeekSpeed (mpv/seek_speed.rs)

SeekSpeed == {"Second", "FiveSeconds", "ThirtySeconds", "Minute", "TenMinutes"}

DefaultSpeed == "FiveSeconds"

SpeedSecs(s) ==
    CASE s = "Second" -> 1
      [] s = "FiveSeconds" -> 5
      [] s = "ThirtySeconds" -> 30
      [] s = "Minute" -> 60
      [] s = "TenMinutes" -> 600

\* longer that wraps around at the top of the ladder
longer_wrap(s) ==
    CASE s = "Second" -> Some("FiveSeconds")
      [] s = "FiveSeconds" -> Some("ThirtySeconds")
      [] s = "ThirtySeconds" -> Some("Minute")
      [] s = "Minute" -> Some("TenMinutes")
      [] s = "TenMinutes" -> Some("Second")

\* SeekSpeed::longer
longer(s) ==
    CASE s = "Second" -> Some("FiveSeconds")
      [] s = "FiveSeconds" -> Some("ThirtySeconds")
      [] s = "ThirtySeconds" -> Some("Minute")
      [] s = "Minute" -> Some("TenMinutes")
      [] s = "TenMinutes" -> None

\* shorter that skips a step (the arm of ThirtySeconds copied to Minute)
shorter_skip(s) ==
    CASE s = "Second" -> None
      [] s = "FiveSeconds" -> Some("Second")
      [] s = "ThirtySeconds" -> Some("FiveSeconds")
      [] s = "Minute" -> Some("FiveSeconds")
      [] s = "TenMinutes" -> Some("Minute")

\* SeekSpeed::shorter
shorter(s) ==
    CASE s = "Second" -> None
      [] s = "FiveSeconds" -> Some("Second")
      [] s = "ThirtySeconds" -> Some("FiveSeconds")
      [] s = "Minute" -> Some("ThirtySeconds")
      [] s = "TenMinutes" -> Some("Minute")

---------------------------------------------------------------------------
\* Commands (mpv/command.rs): the JSON array written to the player

observe_property_cmd(id, property) ==
    <<Str("observe_property"), Num(id), Str(property)>>

set_property_cmd(name, value) == <<Str("set_property"), Str(name), value>>

cycle_property_cmd(name) == <<Str("cycle"), Str(name), Str("")>>

seek_cmd(seconds, exact) ==
    <<Str("seek"), Num(seconds), Str(IF exact THEN "exact" ELSE "keyframes")>>

\* Event::PropertyChange { data, name }
PropertyChange(name, data) ==
    [event |-> "property-change", name |-> name, data |-> data]

\* Response { error, .. }: a line without an `event` field.  of is the
\* request the player answers with the line; the client never reads it.
Response(error, cmd) == [error |-> error, of |-> cmd]

\* EventOrResponse, untagged with Event first: a line that carries the
\* `event` tag is an event, any other line a response
IsEvent(line) == "event" \in DOMAIN line

---------------------------------------------------------------------------
\* The player (environment)

PropNames == {"pause", "percent-pos", "time-pos", "duration", "media-title",
              "sub-pos"}

PercentOf(time) == (time * 100) \div Dur
TimeOfPercent(p) == (p * Dur) \div 100

\* the properties that exist only while a file is loaded: without one the
\* player reports them in a property-change event that has no data
FileProps == {"time-pos", "percent-pos", "duration", "media-title"}

PlayerValue(pl, name) ==
    CASE pl.idle /\ name \in FileProps -> Null
      [] name = "pause" -> Bool(pl.pause)
      [] name = "time-pos" -> Num(pl.time)
      [] name = "percent-pos" -> Num(PercentOf(pl.time))
      [] name = "duration" -> Num(Dur)
      [] name = "media-title" -> Str("title")
      [] name = "sub-pos" -> Num(pl.sub_pos)

\* one property-change event per observer of the property
Emit(pl, name) ==
    [i \in 1..pl.obs[name] |-> PropertyChange(name, PlayerValue(pl, name))]

EmitPos(pl) == Emit(pl, "time-pos") \o Emit(pl, "percent-pos")

\* The player executes a command it accepts; t is where a seek lands.
PlayerExec(pl, cmd, t) ==
    LET verb == cmd[1].s IN
    CASE verb = "observe_property" /\ cmd[3].s \notin PropNames ->
           \* a list property: its events are those of ListChange
           [player |-> pl, events |-> <<>>]
      [] verb = "observe_property" ->
           LET p == [pl EXCEPT !.obs[cmd[3].s] = @ + 1] IN
           [player |-> p,
            events |-> <<PropertyChange(cmd[3].s, PlayerValue(p, cmd[3].s))>>]
      [] verb = "set_property" /\ cmd[2].s = "pause" ->
           LET p == [pl EXCEPT !.pause = cmd[3].b] IN
           [player |-> p,
            events |-> IF p.pause # pl.pause THEN Emit(p, "pause") ELSE <<>>]
      [] verb = "set_property" /\ cmd[2].s = "percent-pos" ->
           LET p == [pl EXCEPT !.time = TimeOfPercent(cmd[3].n)] IN
           [player |-> p,
            events |-> IF p.time # pl.time THEN EmitPos(p) ELSE <<>>]
      [] verb = "set_property" /\ cmd[2].s = "sub-pos" ->
           LET p == [pl EXCEPT !.sub_pos = cmd[3].n] IN
           [player |-> p,
            events |-> IF p.sub_pos # pl.sub_pos THEN Emit(p, "sub-pos") ELSE <<>>]
      [] verb = "cycle" ->
           LET p == [pl EXCEPT !.pause = ~@] IN
           [player |-> p, events |-> Emit(p, "pause")]
      [] verb = "seek" ->
           LET p == [pl EXCEPT !.time = t] IN
           [player |-> p,
            events |-> IF p.time # pl.time THEN EmitPos(p) ELSE <<>>]

\* the error the player answers a command it refuses with
PlayerError(cmd) ==
    IF cmd[1].s = "set_property" THEN "property unavailable"
    ELSE "invalid parameter"

\* what the player writes for a command it has executed as r
Answered(r, cmd) ==
    [player |-> r.player, lines |-> <<Response("success", cmd)>> \o r.events]

\* The player's reaction to the request cmd: its response, then the events
\* the command causes.  refused: the player rejects the command.
PlayerAnswer(pl, cmd, refused, t) ==
    IF refused
    THEN [player |-> pl, lines |-> <<Response(PlayerError(cmd), cmd)>>]
    ELSE Answered(PlayerExec(pl, cmd, t), cmd)

\* where a seek by secs seconds may land from time: never on the other side
SeekTargets(time, secs) ==
    {t \in Times : IF secs >= 0 THEN t >= time ELSE t <= time}

---------------------------------------------------------------------------
\* The client.  Its methods are operators on the record W of the whole
\* state; c carries the choices the environment makes during the call:
\*   c.refuse the kind of command the player refuses during the call (the
\*            refusals inside seek_state() are explored by start_seek)
\*   c.t      where a seek lands
\* The player writes the response of a command before the events the
\* command causes, so read_response buffers the lines that were already on
\* their way and leaves the new events in the socket.

W == [observed_properties |-> observed_properties,
      next_observe_id |-> next_observe_id,
      event_buffer |-> event_buffer,
      seek_state |-> seek_state,
      socket |-> socket,
      player |-> player,
      status |-> status,
      nonblocking |-> nonblocking,
      sent |-> <<>>,
      io |-> <<>>,
      handled |-> <<>>,
      tracks |-> tracks,
      chapters |-> chapters,
      playlist |-> playlist,
      stream |-> stream,
      response |-> None,
      err |-> FALSE]

\* what a command is about: the property it sets, or else its verb
Target(cmd) == IF cmd[1].s = "set_property" THEN cmd[2].s ELSE cmd[1].s

Choices(refusable, targets) ==
    [refuse : {"none"} \cup refusable, t : targets]

\* set_nonblocking that leaves the mode as it is
set_nonblocking_ignored(w, flag) == w

\* UnixStream::set_nonblocking
set_nonblocking(w, flag) == [w EXCEPT !.nonblocking = flag]

\* the entries of the I/O log: a request written, a response read
IoWrite(w, cmd) == [k |-> "write", nonblocking |-> w.nonblocking, of |-> cmd]
IoRead(w, line) ==
    [k |-> "response", nonblocking |-> w.nonblocking, of |-> line.of,
     error |-> line.error]

\* the loop of Mpv::read_response: every event line is pushed to
\* event_buffer, the first other line is the response
RECURSIVE read_response_loop(_)
read_response_loop(w) ==
    IF IsEvent(Head(w.socket))
    THEN read_response_loop(
             [w EXCEPT !.socket = Tail(@),
                       !.event_buffer = Append(@, Head(w.socket))])
    ELSE [w EXCEPT !.socket = Tail(@),
                   !.response = Some(Head(w.socket)),
                   !.io = Append(@, IoRead(w, Head(w.socket)))]

\* Mpv::read_response, inside Mpv::blocking
read_response(w) ==
    set_nonblocking(read_response_loop(set_nonblocking(w, FALSE)), TRUE)

\* the request written a second time before any response is read
Written_twice(w, cmd) ==
    [w EXCEPT !.sent = Append(Append(@, cmd), cmd),
              !.io = Append(Append(@, IoWrite(w, cmd)), IoWrite(w, cmd))]

\* writeln! and flush of Mpv::command
Written(w, cmd) ==
    [w EXCEPT !.sent = Append(@, cmd), !.io = Append(@, IoWrite(w, cmd))]

\* the player has reacted as a: its lines are on the stream
Delivered(w, a) == [w EXCEPT !.player = a.player, !.socket = @ \o a.lines]

\* the test of the response that takes every error for success
IsSuccess_any(response) == response.error \in STRING

\* response.error == "success"
IsSuccess(response) == response.error = "success"

\* the Ok or Err that Mpv::command returns for the response it read
Returned(w) == [w EXCEPT !.err = ~IsSuccess(Unwrap(w.response))]

\* Mpv::command: write the request, then, inside Mpv::blocking, read lines
\* up to the response, and report its error.
command(w, cmd, c) ==
    Returned(
        set_nonblocking(
            read_response(
                set_nonblocking(
                    Delivered(Written(w, cmd),
                              PlayerAnswer(w.player, cmd,
                                           Target(cmd) = c.refuse, c.t)),
                    FALSE)),
            TRUE))

\* read_line that takes every failure of the stream for would-block
read_line_would_block(w) == FALSE

\* Mpv::read_line once the lines on the socket are read: Ok(None) on
\* would-block while the connection is open, Err(UnexpectedEof) on Ok(0),
\* Err(err) on any other error
read_line_fails(w) == w.stream # "open"

\* read_events that replaces the buffer by the lines it read
read_events_replaces(w) == [w EXCEPT !.event_buffer = w.socket, !.socket = <<>>]

\* Mpv::read_events: move every available line to the buffer
read_events(w) ==
    [w EXCEPT !.event_buffer = @ \o w.socket, !.socket = <<>>,
              !.err = read_line_fails(w)]

\* handle_event that keeps the value a property already has
handle_event_keeps_first(props, ev) ==
    [n \in DOMAIN props \cup {ev.name} |->
        IF n \in DOMAIN props THEN props[n] ELSE ev.data]

\* Mpv::handle_event, the arm of the ordinary properties: insert
handle_event(props, ev) ==
    [n \in DOMAIN props \cup {ev.name} |->
        IF n = ev.name THEN ev.data ELSE props[n]]

\* TrackType, and Track, ChapterRaw and PlaylistEntry deserialized from a
\* JSON object o: None when a required field is missing or the track type
\* is none of the three; `selected` defaults to false, title is optional
TrackType == {"video", "audio", "sub"}

TrackOf(o) ==
    IF {"type", "id"} \subseteq DOMAIN o /\ o.type \in TrackType
    THEN Some([ty |-> o.type, id |-> o.id,
               selected |-> ("selected" \in DOMAIN o /\ o.selected)])
    ELSE None

ChapterRawOf(o) ==
    IF "time" \in DOMAIN o
    THEN Some([title |-> IF "title" \in DOMAIN o THEN Some(o.title) ELSE None,
               time |-> o.time])
    ELSE None

PlaylistEntryOf(o) ==
    IF {"filename", "id"} \subseteq DOMAIN o
    THEN Some([filename |-> o.filename, id |-> o.id,
               current |-> ("current" \in DOMAIN o /\ o.current)])
    ELSE None

\* serde_json::from_value::<Vec<T>>: an array whose every element
\* deserializes, or an error
FromList(v, Of(_)) ==
    IF v.t = "list" /\ \A i \in 1..Len(v.l) : IsSome(Of(v.l[i]))
    THEN Some([i \in 1..Len(v.l) |-> Unwrap(Of(v.l[i]))])
    ELSE None

\* store_deserialized_property that empties the field on an error
store_deserialized_property_clears(parsed, field) ==
    IF IsSome(parsed) THEN Unwrap(parsed) ELSE <<>>

\* Mpv::store_deserialized_property: parsed is the result of from_value
store_deserialized_property(parsed, field) ==
    IF IsSome(parsed) THEN Unwrap(parsed) ELSE field

\* Mpv::handle_event on a property-change event: the three lists are
\* stored deserialized, every other property goes to the cache
handle_property_change(w, ev) ==
    CASE ev.name = "playlist" ->
           [w EXCEPT !.playlist = store_deserialized_property(
                                      FromList(ev.data, PlaylistEntryOf), @)]
      [] ev.name = "track-list" ->
           [w EXCEPT !.tracks = store_deserialized_property(
                                    FromList(ev.data, TrackOf), @)]
      [] ev.name = "chapter-list" ->
           [w EXCEPT !.chapters = store_deserialized_property(
                                      FromList(ev.data, ChapterRawOf), @)]
      [] OTHER -> [w EXCEPT !.observed_properties = handle_event(@, ev)]

\* Event::Seek, and an event of a tag the client does not know
\* (#[serde(other)] Unknown)
SeekEvent == [event |-> "seek"]
OtherEvent == [event |-> "playback-restart"]

\* handle_event that takes a seek event for the end of the seek session
handle_event_line_ends_session(w, ev) ==
    CASE ev.event = "property-change" -> handle_property_change(w, ev)
      [] ev.event = "seek" -> [w EXCEPT !.seek_state = None]
      [] OTHER -> w

\* Mpv::handle_event: the match on the event
handle_event_line(w, ev) ==
    CASE ev.event = "property-change" -> handle_property_change(w, ev)
      [] ev.event = "seek" -> w
      [] OTHER -> w

\* one turn of the loop of update: handle_event is called with ev
Handle(w, ev) == [handle_event_line(w, ev) EXCEPT !.handled = Append(@, ev)]

RECURSIVE HandleAll(_, _)
HandleAll(w, evs) ==
    IF evs = <<>> THEN w ELSE HandleAll(Handle(w, Head(evs)), Tail(evs))

\* Mpv::update
update(w) ==
    LET w1 == read_events(w) IN
    IF w1.err THEN w1
    ELSE HandleAll([w1 EXCEPT !.event_buffer = <<>>], w1.event_buffer)

\* observe_property that sends the counter and leaves it as it is
observe_property_same_id(w, property, c) ==
    command(w, observe_property_cmd(w.next_observe_id, property), c)

\* Mpv::observe_property
observe_property(w, property, c) ==
    command([w EXCEPT !.next_observe_id = @ + 1],
            observe_property_cmd(w.next_observe_id, property), c)

\* get_property_cached that never finds a value
get_property_cached_miss(w, name, ty) == None

\* Mpv::get_property_cached
get_property_cached(w, name, ty) ==
    IF name \in DOMAIN w.observed_properties
    THEN FromValue(w.observed_properties[name], ty)
    ELSE None

\* the events of the buffer that are property changes of name, in order
Matching(buf, name) ==
    SelectSeq(buf, LAMBDA e : e.event = "property-change" /\ e.name = name)

\* Mpv::get_property: the cached value, or observe and wait for the first
\* buffered property-change event of that name.  Result: [w, v].
\* the return of get_property: the value, or the panic where there is none
Received(w, v) ==
    IF IsSome(v) THEN [w |-> w, v |-> v]
    ELSE [w |-> [w EXCEPT !.status = "panicked"], v |-> None]

\* the loop over the buffer that returns the latest change instead
FirstChange_latest(buf, name, ty) ==
    IF Matching(buf, name) = <<>> THEN None
    ELSE FromValue(Matching(buf, name)[Len(Matching(buf, name))].data, ty)

\* the loop over the buffer: the first property change of name, deserialized
FirstChange(buf, name, ty) ==
    IF Matching(buf, name) = <<>> THEN None
    ELSE FromValue(Matching(buf, name)[1].data, ty)

\* after observe_property returned w: expect, read_events, the loop
AwaitChange(w, name, ty) ==
    IF w.err THEN Received(w, None)
    ELSE IF read_events(w).err THEN Received(read_events(w), None)
    ELSE Received(read_events(w),
                  FirstChange(read_events(w).event_buffer, name, ty))

get_property(w, name, ty, c) ==
    IF IsSome(get_property_cached(w, name, ty))
    THEN [w |-> w, v |-> get_property_cached(w, name, ty)]
    ELSE AwaitChange(observe_property(w, name, c), name, ty)

\* set_property that always writes true
set_property_true(w, name, value, c) ==
    command(w, set_property_cmd(name, Bool(TRUE)), c)

\* Mpv::set_property
set_property(w, name, value, c) == command(w, set_property_cmd(name, value), c)

\* pause written with the wrong flag
pause_unpauses(w, c) == set_property(w, "pause", Bool(FALSE), c)

\* Mpv::pause / Mpv::unpause
pause(w, c) == set_property(w, "pause", Bool(TRUE), c)
unpause(w, c) == set_property(w, "pause", Bool(FALSE), c)

---------------------------------------------------------------------------
\* The seek session (SeekState: speed, exact, ended, pos, paused)

\* Duration::from_secs(60) of Mpv::seek_state
GraceSecs == 60

\* seconds per clock tick: half the grace window
TickSecs == GraceSecs \div 2

SeekState(speed, exact, ended, pos, paused) ==
    [speed |-> speed, exact |-> exact, ended |-> ended,
     pos |-> pos, paused |-> paused]

\* ended.elapsed()
Elapsed(ended) == Unwrap(ended)

\* Some(Instant::now())
JustNow == Some(0)

\* the comparison of the grace window turned around
InGrace_inverted(st) ==
    /\ IsSome(st)
    /\ IsSome(Unwrap(st).ended)
    /\ Elapsed(Unwrap(st).ended) > GraceSecs

\* first arm of the match in Mpv::seek_state: a session in its grace window
InGrace(st) ==
    /\ IsSome(st)
    /\ IsSome(Unwrap(st).ended)
    /\ Elapsed(Unwrap(st).ended) < GraceSecs

\* the test for a live session turned around
IsLive_inverted(st) == IsSome(st) /\ IsSome(Unwrap(st).ended)

\* second arm: a live session
IsLive(st) == IsSome(st) /\ ~IsSome(Unwrap(st).ended)

\* The two reads that the first and the third arm of Mpv::seek_state begin
\* with: percent-pos, then pause.  Result: [w, pos, paused]; g1 and g2 are
\* what get_property returned.
SnapshotPaused(pos, g2) == [w |-> g2.w, pos |-> pos, paused |-> g2.v]

SnapshotPos(g1, c) ==
    IF g1.w.status # "running"
    THEN [w |-> g1.w, pos |-> None, paused |-> None]
    ELSE SnapshotPaused(g1.v, get_property(g1.w, "pause", "bool", c))

Snapshot(w, c) == SnapshotPos(get_property(w, "percent-pos", "f32", c), c)

\* a resume that keeps the snapshot of the session's creation
Resumed_keeps_snapshot(s, w) ==
    [w EXCEPT !.err = FALSE,
              !.seek_state = Some([Unwrap(@) EXCEPT !.ended = None])]

\* the end of the first arm, w being the client after pause().ok(): the
\* session takes the snapshot s and is live again
Resumed(s, w) ==
    [w EXCEPT !.err = FALSE,
              !.seek_state = Some([Unwrap(@) EXCEPT
                                      !.pos = Unwrap(s.pos),
                                      !.paused = Unwrap(s.paused),
                                      !.ended = None])]

\* first arm of Mpv::seek_state: snapshot again, pause again, live again
ResumeWith(s, c) ==
    IF s.w.status # "running" THEN s.w ELSE Resumed(s, pause(s.w, c))

ResumeSession(w, c) == ResumeWith(Snapshot(w, c), c)

\* third arm of Mpv::seek_state: a new session, then pause().ok()
Created(s) ==
    [s.w EXCEPT !.seek_state =
        Some(SeekState(DefaultSpeed, FALSE, None,
                       Unwrap(s.pos), Unwrap(s.paused)))]

FreshWith(s, c) ==
    IF s.w.status # "running" THEN s.w
    ELSE [pause(Created(s), c) EXCEPT !.err = FALSE]

FreshSession(w, c) == FreshWith(Snapshot(w, c), c)

\* Mpv::seek_state: the live session, resumed or created when there is none
seek_state_fn(w, c) ==
    IF InGrace(w.seek_state) THEN ResumeSession(w, c)
    ELSE IF IsLive(w.seek_state) THEN w
    ELSE FreshSession(w, c)

\* Mpv::time_pos, Mpv::duration
time_pos(w) == get_property_cached(w, "time-pos", "Time")
duration(w) == get_property_cached(w, "duration", "Time")

\* Mpv::time_pos_fallback, Mpv::duration_fallback
time_pos_fallback(w) == IF IsSome(time_pos(w)) THEN Unwrap(time_pos(w)) ELSE 0

duration_fallback(w) ==
    IF IsSome(duration(w)) THEN Unwrap(duration(w)) ELSE time_pos_fallback(w)

\* the smallest and the greatest of a set of indices
Lowest(idx) == CHOOSE i \in idx : \A j \in idx : i <= j
Highest(idx) == CHOOSE i \in idx : \A j \in idx : j <= i

\* tracks_of_type with the range first..last, the last track left out
tracks_of_type_exclusive(w, ty) ==
    LET idx == {i \in 1..Len(w.tracks) : w.tracks[i].ty = ty}
    IN IF idx = {} THEN <<>>
       ELSE SubSeq(w.tracks, Lowest(idx), Highest(idx) - 1)

\* Mpv::tracks_of_type: the slice from the first to the last track of ty
tracks_of_type(w, ty) ==
    LET idx == {i \in 1..Len(w.tracks) : w.tracks[i].ty = ty}
    IN IF idx = {} THEN <<>>
       ELSE SubSeq(w.tracks, Lowest(idx), Highest(idx))

\* rposition that finds the first chapter at or before the position
current_chapter_index_first(w) ==
    LET idx == {i \in 1..Len(w.chapters) :
                   IsSome(time_pos(w)) /\ w.chapters[i].time <= Unwrap(time_pos(w))}
    IN IF idx = {} THEN None ELSE Some(Lowest(idx) - 1)

\* Mpv::chapters, current_chapter_index: time_pos().and_then(rposition),
\* an index counted from 0
current_chapter_index(w) ==
    LET idx == {i \in 1..Len(w.chapters) :
                   IsSome(time_pos(w)) /\ w.chapters[i].time <= Unwrap(time_pos(w))}
    IN IF idx = {} THEN None ELSE Some(Highest(idx) - 1)

\* Mpv::chapters, ends: the start of the next chapter, duration_fallback()
\* for the last
ChapterEnd(w, i) ==
    IF i < Len(w.chapters) THEN w.chapters[i + 1].time ELSE duration_fallback(w)

\* Mpv::chapters
Chapters(w) ==
    [i \in 1..Len(w.chapters) |->
        [title |-> w.chapters[i].title,
         start |-> w.chapters[i].time,
         current |-> current_chapter_index(w) = Some(i - 1),
         duration |-> ChapterEnd(w, i) - w.chapters[i].time]]

\* Mpv::seconds_left
seconds_left(w) ==
    LET d == duration(w)
        p == time_pos(w)
    IN IF ~IsSome(d) \/ ~IsSome(p) THEN None
       ELSE IF Unwrap(d) > 0 /\ Unwrap(p) >= 0
            THEN Some(Unwrap(d) - Unwrap(p))
            ELSE None

\* Mpv::start_seek
start_seek(w, c) == seek_state_fn(w, c)

\* the exactness without the clamp at the end of the media
SeekInnerExact_no_clamp(state, forward, left, seconds) == state.exact

\* the exactness of the seek that seek_inner sends
SeekInnerExact(state, forward, left, seconds) ==
    LET would_seek_past_end == forward /\ IsSome(left) /\ Unwrap(left) < seconds
    IN state.exact \/ would_seek_past_end

\* the distance with the sign of the forward seek negated
SeekInnerSeconds_wrong_sign(state, forward) ==
    IF forward THEN -SpeedSecs(state.speed) ELSE SpeedSecs(state.speed)

\* the signed distance of the seek that seek_inner sends
SeekInnerSeconds(state, forward) ==
    IF forward THEN SpeedSecs(state.speed) ELSE -SpeedSecs(state.speed)

\* the command that seek_inner sends
SeekInnerCmd(state, forward, left) ==
    seek_cmd(SeekInnerSeconds(state, forward),
             SeekInnerExact(state, forward, left,
                            SeekInnerSeconds(state, forward)))

\* seek_inner from the session on: w is the client that seek_state() left,
\* left the seconds_left() read before it
SeekWith(w, forward, left, c) ==
    IF w.status # "running" THEN w
    ELSE command(w, SeekInnerCmd(Unwrap(w.seek_state), forward, left), c)

\* Mpv::seek_inner
seek_inner(w, forward, c) ==
    SeekWith(seek_state_fn(w, c), forward, seconds_left(w), c)

\* Mpv::seek_forward, Mpv::seek_backward
seek_forward(w, c) == seek_inner(w, TRUE, c)
seek_backward(w, c) == seek_inner(w, FALSE, c)

\* seek_stateless that obtains the session first, as seek_inner does
seek_stateless_in_session(w, seconds, exact, c) ==
    command(seek_state_fn(w, c), seek_cmd(seconds, exact), c)

\* Mpv::seek_stateless
seek_stateless(w, seconds, exact, c) == command(w, seek_cmd(seconds, exact), c)

\* Mpv::seek_faster
seek_faster(w) ==
    IF IsSome(w.seek_state) /\ IsSome(longer(Unwrap(w.seek_state).speed))
    THEN [w EXCEPT !.seek_state =
             Some([Unwrap(@) EXCEPT !.speed = Unwrap(longer(@))])]
    ELSE w

\* Mpv::seek_slower
seek_slower(w) ==
    IF IsSome(w.seek_state) /\ IsSome(shorter(Unwrap(w.seek_state).speed))
    THEN [w EXCEPT !.seek_state =
             Some([Unwrap(@) EXCEPT !.speed = Unwrap(shorter(@))])]
    ELSE w

\* toggle_seek_exact that sets the flag instead of negating it
toggle_seek_exact_sets(w) ==
    IF IsSome(w.seek_state)
    THEN [w EXCEPT !.seek_state = Some([Unwrap(@) EXCEPT !.exact = TRUE])]
    ELSE w

\* Mpv::toggle_seek_exact
toggle_seek_exact(w) ==
    IF IsSome(w.seek_state)
    THEN [w EXCEPT !.seek_state = Some([Unwrap(@) EXCEPT !.exact = ~@])]
    ELSE w

\* seek_speed that checks the age of the session
seek_speed_aged(w) ==
    IF IsSome(w.seek_state)
       /\ (~IsSome(Unwrap(w.seek_state).ended)
           \/ Elapsed(Unwrap(w.seek_state).ended) < GraceSecs)
    THEN Some(Unwrap(w.seek_state).speed)
    ELSE None

\* Mpv::seek_exact, Mpv::seek_speed
seek_exact(w) == IsSome(w.seek_state) /\ Unwrap(w.seek_state).exact
seek_speed(w) ==
    IF IsSome(w.seek_state) THEN Some(Unwrap(w.seek_state).speed) ELSE None

\* finish_seek that leaves the end of the session unset
Ended_unset(w) == w

\* Mpv::finish_seek
Ended(w) ==
    [w EXCEPT !.seek_state = Some([Unwrap(@) EXCEPT !.ended = JustNow])]

finish_seek(w, c) ==
    IF IsSome(w.seek_state) THEN
        IF ~Unwrap(w.seek_state).paused THEN unpause(Ended(w), c)
        ELSE Ended(w)
    ELSE w

\* Mpv::cancel_seek
\* cancel_seek after the write of percent-pos returned w: `?`, then unpause
Restored(st, w, c) ==
    IF w.err THEN w
    ELSE IF ~st.paused THEN unpause(w, c) ELSE w

cancel_seek(w, c) ==
    IF IsSome(w.seek_state) THEN
        Restored(Unwrap(w.seek_state),
                 command([w EXCEPT !.seek_state = None],
                         set_property_cmd("percent-pos",
                                          Num(Unwrap(w.seek_state).pos)), c),
                 c)
    ELSE w

\* Mpv::cycle_property
cycle_property(w, name, c) == command(w, cycle_property_cmd(name), c)

---------------------------------------------------------------------------
\* The state machine

\* Mpv::new: time-pos, duration and the three list properties are observed
\* (ids 0..4); the player's first events for them are on their way.
InitObserved == 5

\* App::default: not initialized, the view Hidden (#[default]), and
\* Gamepad::new: last_input is now
HiddenView == [kind |-> "Hidden", submenu |-> None]
NewApp == [initialized |-> FALSE, view |-> HiddenView, idle |-> 0]

\* the client beside the player pl, with the events buf read and the lines
\* sock unread, the cache props and the lists tr and ch stored
Started(pl, buf, sock, props, tr, ch) ==
    /\ player = pl
    /\ event_buffer = buf
    /\ socket = sock
    /\ observed_properties = props
    /\ next_observe_id = InitObserved
    /\ seek_state = None
    /\ status = "running"
    /\ result = "ok"
    /\ sent = <<>>
    /\ op = "new"
    /\ arg = None
    /\ ret = None
    /\ nonblocking = TRUE
    /\ io = <<>>
    /\ handled = <<>>
    /\ tracks = tr
    /\ chapters = ch
    /\ playlist = <<>>
    /\ stream = "open"
    /\ app = NewApp
    /\ trace = <<>>
    /\ fin = None
    /\ snap = None

\* where the player puts the subtitles until it is told otherwise: its
\* default of sub-pos, in percent of the screen height
SubPosDefault == 100

\* the player at construction: time-pos and duration are observed
PlayerAt(p, t) ==
    [pause |-> p, time |-> t, sub_pos |-> SubPosDefault, idle |-> FALSE,
     obs |-> [n \in PropNames |->
                 IF n \in {"time-pos", "duration"} THEN 1 ELSE 0]]

Init ==
    \E p \in BOOLEAN, t \in Times, k \in 0..2 :
        LET pl == PlayerAt(p, t)
            first == Emit(pl, "time-pos") \o Emit(pl, "duration")
        IN Started(pl, SubSeq(first, 1, k), SubSeq(first, k + 1, 2),
                   <<>>, <<>>, <<>>)

\* the state after the client operation name, called with a, that ended in
\* the record r and returned v
StoredWithin(r, name, a, v, f, sn, lines, ids) ==
    \E w \in {r} :
        /\ Len(w.event_buffer) + Len(w.socket) <= lines
        /\ w.next_observe_id <= InitObserved + ids
        /\ observed_properties' = w.observed_properties
        /\ next_observe_id' = w.next_observe_id
        /\ event_buffer' = w.event_buffer
        /\ seek_state' = w.seek_state
        /\ socket' = w.socket
        /\ player' = w.player
        /\ status' = w.status
        /\ result' = (IF w.err THEN "err" ELSE "ok")
        /\ sent' = w.sent
        /\ op' = name
        /\ arg' = a
        /\ ret' = v
        /\ nonblocking' = w.nonblocking
        /\ io' = w.io
        /\ handled' = w.handled
        /\ tracks' = w.tracks
        /\ chapters' = w.chapters
        /\ playlist' = w.playlist
        /\ stream' = w.stream
        /\ fin' = f
        /\ snap' = sn

Stored(r, name, a, v, f, sn) ==
    StoredWithin(r, name, a, v, f, sn, MaxLines, MaxObserveId)

\* the same for a call of the client outside App::update
Returns(r, name, a, v, f, sn) ==
    /\ Stored(r, name, a, v, f, sn)
    /\ app' = app
    /\ trace' = <<>>

\* the same for an operation without argument that returns no value
Commit(r, name, f, sn) == Returns(r, name, None, None, f, sn)

Running == status = "running"

Update == Running /\ Commit(update(W), "update", None, None)

StartSeek ==
    /\ Running
    /\ \E c \in Choices({"observe_property", "pause"}, {player.time}) :
          Commit(start_seek(W, c), "start_seek", fin,
                 IF seek_state = None
                 THEN Some([time |-> player.time, pause |-> player.pause])
                 ELSE None)

SeekForward ==
    /\ Running
    /\ \E c \in Choices({"seek"},
                        SeekTargets(player.time, 1)) :
          Commit(seek_forward(W, c), "seek_forward", None, None)

SeekBackward ==
    /\ Running
    /\ \E c \in Choices({"seek"},
                        SeekTargets(player.time, -1)) :
          Commit(seek_backward(W, c), "seek_backward", None, None)

SeekFaster == Running /\ Commit(seek_faster(W), "seek_faster", None, None)

SeekSlower == Running /\ Commit(seek_slower(W), "seek_slower", None, None)

ToggleSeekExact ==
    Running /\ Commit(toggle_seek_exact(W), "toggle_seek_exact", None, None)

FinishSeek ==
    /\ Running
    /\ \E c \in Choices({"pause"}, {player.time}) :
          Commit(finish_seek(W, c), "finish_seek",
                 IF IsSome(seek_state)
                 THEN Some([speed |-> Unwrap(seek_state).speed,
                            exact |-> Unwrap(seek_state).exact])
                 ELSE None,
                 None)

CancelSeek ==
    /\ Running
    /\ \E c \in Choices({"percent-pos", "pause"}, {player.time}) :
          Commit(cancel_seek(W, c), "cancel_seek", None,
                 IF op = "start_seek" THEN snap ELSE None)

TogglePause ==
    /\ Running
    /\ \E c \in Choices({}, {player.time}) :
          Commit(cycle_property(W, "pause", c), "cycle_property", None, None)

\* what seek_stateless is called with: the 5 s forward of Command::execute,
\* and a call backward that asks for an exact seek
StatelessArgs ==
    {[seconds |-> 5, exact |-> FALSE], [seconds |-> -5, exact |-> TRUE]}

SeekStateless ==
    /\ Running
    /\ \E a \in StatelessArgs :
          \E c \in Choices({"seek"}, SeekTargets(player.time, a.seconds)) :
              Returns(seek_stateless(W, a.seconds, a.exact, c),
                      "seek_stateless", a, None, None, None)

\* set_property("pause", b)
SetPause ==
    /\ Running
    /\ \E b \in BOOLEAN :
          \E c \in Choices({"pause"}, {player.time}) :
              Returns(set_property(W, "pause", Bool(b), c),
                      "set_property", Bool(b), None, None, None)

\* the properties that callers of get_property read, and the type they ask
GetNames == {"pause", "time-pos"}
TypeOf(name) == IF name = "pause" THEN "bool" ELSE "f32"

GetProperty ==
    /\ Running
    /\ \E name \in GetNames :
          \E c \in Choices({"observe_property"}, {player.time}) :
              \E g \in {get_property(W, name, TypeOf(name), c)} :
                  Returns(g.w, "get_property", name, g.v, None, None)

\* time passes: an ended session grows older
Tick ==
    /\ IsSome(seek_state)
    /\ IsSome(Unwrap(seek_state).ended)
    /\ Elapsed(Unwrap(seek_state).ended) < MaxTicks * TickSecs
    /\ seek_state' = Some([Unwrap(seek_state) EXCEPT
                              !.ended = Some(Unwrap(@) + TickSecs)])
    /\ op' = "tick"
    /\ result' = "ok"
    /\ sent' = <<>>
    /\ snap' = None
    /\ io' = <<>>
    /\ handled' = <<>>
    /\ arg' = None
    /\ ret' = None
    /\ UNCHANGED <<observed_properties, next_observe_id, event_buffer,
                   socket, player, status, nonblocking, fin,
                   tracks, chapters, playlist, stream, app, trace>>

\* the player plays on and tells its observers
PlayerAdvance ==
    /\ ~player.pause
    /\ \E t \in Times :
          /\ t > player.time
          /\ LET p == [player EXCEPT !.time = t] IN
             /\ Len(event_buffer) + Len(socket) + Len(EmitPos(p)) <= MaxLines
             /\ player' = p
             /\ socket' = socket \o EmitPos(p)
    /\ op' = "player_advance"
    /\ result' = "ok"
    /\ sent' = <<>>
    /\ snap' = None
    /\ io' = <<>>
    /\ handled' = <<>>
    /\ arg' = None
    /\ ret' = None
    /\ UNCHANGED <<observed_properties, next_observe_id, event_buffer,
                   seek_state, status, nonblocking, fin,
                   tracks, chapters, playlist, stream, app, trace>>

Next ==
    \/ Update
    \/ StartSeek
    \/ SeekForward
    \/ SeekBackward
    \/ SeekFaster
    \/ SeekSlower
    \/ ToggleSeekExact
    \/ FinishSeek
    \/ CancelSeek
    \/ TogglePause
    \/ Tick
    \/ PlayerAdvance

Spec == Init /\ [][Next]_vars

\* The client with the calls that bypass the seek session, get_property
\* and seek_stateless, beside sessions that are started, finished and left
\* to age with their first settings.
NextIo ==
    \/ Update
    \/ GetProperty
    \/ SetPause
    \/ TogglePause
    \/ SeekStateless
    \/ StartSeek
    \/ FinishSeek
    \/ Tick
    \/ PlayerAdvance

SpecIo == Init /\ [][NextIo]_vars

\* The queries on the stored lists.  The lists are what update() stored
\* from the player's last track-list and chapter-list events.
MaxTracks == 3

\* the cache after an update() that handled the first events of pl
CacheOf(pl) == [n \in {"time-pos", "duration"} |-> PlayerValue(pl, n)]

\* the track lists of up to MaxTracks tracks, numbered in list order
TrackLists ==
    UNION {{[i \in 1..k |-> [ty |-> f[i], id |-> i, selected |-> FALSE]] :
               f \in [1..k -> TrackType]} : k \in 0..MaxTracks}

InitTracks ==
    \E t \in Times, tr \in TrackLists :
        Started(PlayerAt(FALSE, t), <<>>, <<>>, CacheOf(PlayerAt(FALSE, t)),
                tr, <<>>)

TracksOfType ==
    /\ Running
    /\ \E ty \in TrackType :
          Returns(W, "tracks_of_type", ty, tracks_of_type(W, ty), None, None)

NextTracks == TracksOfType

SpecTracks == InitTracks /\ [][NextTracks]_vars

MaxChapters == 3

\* chapter starts, cached positions and cached durations, in seconds
ChapterStarts == {0, 10, 30}
Positions == {5, 10, 15, 35}
Durations == {40}

\* the chapter lists of up to MaxChapters chapters, in the order of their
\* starts
ChapterLists ==
    UNION {{[i \in 1..k |-> [title |-> None, time |-> f[i]]] :
               f \in {g \in [1..k -> ChapterStarts] :
                         \A i \in 1..k, j \in 1..k : i < j => g[i] <= g[j]}} :
           k \in 0..MaxChapters}

\* the caches that hold time-pos or not, and duration or not
ChapterCaches ==
    {[n \in ns |-> Num(IF n = "time-pos" THEN p ELSE d)] :
        ns \in SUBSET {"time-pos", "duration"}, p \in Positions, d \in Durations}

InitChapters ==
    \E t \in Times, props \in ChapterCaches, ch \in ChapterLists :
        Started(PlayerAt(FALSE, t), <<>>, <<>>, props, <<>>, ch)

ChaptersOf ==
    /\ Running
    /\ Returns(W, "chapters", None, Chapters(W), None, None)

NextChapters == ChaptersOf

SpecChapters == InitChapters /\ [][NextChapters]_vars

\* The list properties.  The player reports playlist, track-list and
\* chapter-list in property-change events whose data is the whole list.
ListNames == {"playlist", "track-list", "chapter-list"}

\* data that deserializes into the list of the property
GoodData(name) ==
    CASE name = "track-list" ->
           {List(<<>>),
            List(<<[type |-> "video", id |-> 1]>>),
            List(<<[type |-> "video", id |-> 1],
                   [type |-> "audio", id |-> 2, selected |-> TRUE]>>)}
      [] name = "chapter-list" ->
           {List(<<>>),
            List(<<[time |-> 0]>>),
            List(<<[title |-> "a", time |-> 0], [time |-> 10]>>)}
      [] name = "playlist" ->
           {List(<<>>),
            List(<<[filename |-> "f", id |-> 1, current |-> TRUE]>>),
            List(<<[filename |-> "f", id |-> 1], [filename |-> "g", id |-> 2]>>)}

\* data that does not: no array, an element without a required field, a
\* track of an unknown type
BadData(name) ==
    CASE name = "track-list" ->
           {Null,
            List(<<[id |-> 1]>>),
            List(<<[type |-> "video", id |-> 1], [type |-> "image", id |-> 2]>>)}
      [] name = "chapter-list" ->
           {Null, List(<<[time |-> 0], [title |-> "b"]>>)}
      [] name = "playlist" ->
           {Null, List(<<[filename |-> "f"]>>)}

InitLists ==
    \E t \in Times :
        Started(PlayerAt(FALSE, t), <<>>, <<>>, CacheOf(PlayerAt(FALSE, t)),
                <<>>, <<>>)

\* most list events that may wait on the socket
MaxListEvents == 2

\* the player reports a list; the event waits on the socket
ListChange ==
    /\ Running
    /\ Len(socket) < MaxListEvents
    /\ \E name \in ListNames : \E data \in GoodData(name) \cup BadData(name) :
          Commit([W EXCEPT !.socket = Append(@, PropertyChange(name, data))],
                 "list_change", None, None)

NextLists == ListChange \/ Update

SpecLists == InitLists /\ [][NextLists]_vars

---------------------------------------------------------------------------
\* The application (src/src/main.rs).  App::update is one tick: it runs on
\* the record a of the client w, the view, the idle time, the Activated
\* flag of the tick and the trace of the tick.

\* io::Result::unwrap / expect on the result of a call of the client, and
\* io::Result::ok
Expect_ignored(w) == [w EXCEPT !.err = FALSE]

Expect(w) == IF w.err THEN [w EXCEPT !.status = "panicked"] ELSE w

Ok(w) == [w EXCEPT !.err = FALSE]

\* enum View; the entries of the menu whose submenus draw no player property
ViewKinds == {"Hidden", "MiniSeek", "SeekBar", "Seeking", "Menu", "Characters"}
MenuEntry == {"Volume", "PlaybackSpeed", "Playlist"}
ViewOf(kind) == [kind |-> kind, submenu |-> None]
MenuView(submenu) == [kind |-> "Menu", submenu |-> submenu]

\* the field of Actions that Actions::iter pairs each gilrs button with is
\* FieldOf; Buttons are the buttons pressed in the model, RightTrigger
\* being in no table
Buttons == {"East", "South", "DPadLeft", "RightTrigger", "Select",
            "Start"}

\* Actions::iter with East and South exchanged
FieldOf_swapped(button) ==
    CASE button = "East" -> "b"
      [] button = "South" -> "a"
      [] button = "North" -> "x"
      [] button = "West" -> "y"
      [] button = "DPadUp" -> "up"
      [] button = "DPadDown" -> "down"
      [] button = "DPadLeft" -> "left"
      [] button = "DPadRight" -> "right"
      [] button = "LeftTrigger2" -> "l2"
      [] button = "RightTrigger" -> "r1"
      [] button = "Select" -> "select"
      [] button = "Start" -> "start"

\* Actions::iter
FieldOf(button) ==
    CASE button = "East" -> "a"
      [] button = "South" -> "b"
      [] button = "North" -> "x"
      [] button = "West" -> "y"
      [] button = "DPadUp" -> "up"
      [] button = "DPadDown" -> "down"
      [] button = "DPadLeft" -> "left"
      [] button = "DPadRight" -> "right"
      [] button = "LeftTrigger2" -> "l2"
      [] button = "RightTrigger" -> "r1"
      [] button = "Select" -> "select"
      [] button = "Start" -> "start"

\* Actions::get: the command of the button, Command::None by default
get(actions, button) ==
    IF FieldOf(button) \in DOMAIN actions THEN actions[FieldOf(button)]
    ELSE "None"

\* View::button_actions
button_actions(view) ==
    CASE view.kind \in {"Hidden", "MiniSeek"} ->
           [a |-> "StartSeeking", b |-> "ShowUi", x |-> "TogglePause",
            y |-> "ShowUi", left |-> "SeekBackwardStateless",
            right |-> "SeekForwardStateless", l2 |-> "CharactersDebug",
            select |-> "ShowMiniSeek", start |-> "ShowMenu"]
      [] view.kind = "SeekBar" ->
           [a |-> "StartSeeking", b |-> "HideUi", x |-> "TogglePause",
            left |-> "SeekBackwardStateless",
            right |-> "SeekForwardStateless", start |-> "ShowMenu"]
      [] view.kind = "Seeking" ->
           [a |-> "DoneSeeking", b |-> "CancelSeeking", y |-> "SeekExact",
            up |-> "SeekFaster", down |-> "SeekSlower",
            left |-> "SeekBackward", right |-> "SeekForward"]
      [] view.kind = "Menu" ->
           [a |-> "Activate",
            b |-> IF IsSome(view.submenu) THEN "ShowMenu" ELSE "HideUi",
            up |-> "MoveFocus", down |-> "MoveFocus", left |-> "MoveFocus",
            right |-> "MoveFocus", start |-> "HideUi"]
      [] view.kind = "Characters" -> [b |-> "HideUi"]

\* View::hide_on_inactive, in seconds; View::show_prompts
MiniSeekHideSecs == 2
SeekBarHideSecs == 5

hide_on_inactive(view) ==
    CASE view.kind = "MiniSeek" -> Some(MiniSeekHideSecs)
      [] view.kind = "SeekBar" -> Some(SeekBarHideSecs)
      [] OTHER -> None

show_prompts(view) == view.kind \notin {"Hidden", "MiniSeek", "Menu"}

\* change_view that keeps the submenu of the view it leaves
change_view_keeps_submenu(a, new_view) ==
    [a EXCEPT !.view = [new_view EXCEPT !.submenu = a.view.submenu]]

\* App::change_view
change_view(a, new_view) ==
    IF a.view = new_view THEN a ELSE [a EXCEPT !.view = new_view]

\* handle_event that leaves the view as it is
handle_event_app_keeps_view(a, ev) == a

\* App::handle_event: a toast is pushed, the last gamepad gone hides the UI
handle_event_app(a, ev) ==
    CASE ev = "None" -> a
      [] ev = "Toast" -> a
      [] ev = "LastGamepadDisconnected" -> change_view(a, HiddenView)

\* the distance of the stateless seeks of handle_command
StatelessSecs == 10

\* App::handle_command; Command::Quit is in no table of button_actions
handle_command(a, cmd, c) ==
    CASE cmd = "None" -> a
      [] cmd = "ShowMiniSeek" ->
           IF a.view = ViewOf("MiniSeek") THEN change_view(a, HiddenView)
           ELSE change_view(a, ViewOf("MiniSeek"))
      [] cmd = "ShowUi" -> change_view(a, ViewOf("SeekBar"))
      [] cmd = "HideUi" -> change_view(a, HiddenView)
      [] cmd = "ShowMenu" -> change_view(a, MenuView(None))
      [] cmd = "MoveFocus" -> a
      [] cmd = "Activate" -> [a EXCEPT !.activated = TRUE]
      [] cmd = "TogglePause" ->
           [a EXCEPT !.w = Expect(cycle_property(@, "pause", c))]
      [] cmd = "StartSeeking" ->
           change_view([a EXCEPT !.w = start_seek(@, c)], ViewOf("Seeking"))
      [] cmd = "SeekForward" -> [a EXCEPT !.w = Expect(seek_forward(@, c))]
      [] cmd = "SeekBackward" -> [a EXCEPT !.w = Expect(seek_backward(@, c))]
      [] cmd = "SeekForwardStateless" ->
           [a EXCEPT !.w = Expect(seek_stateless(@, StatelessSecs, FALSE, c))]
      [] cmd = "SeekBackwardStateless" ->
           [a EXCEPT !.w = Expect(seek_stateless(@, -StatelessSecs, FALSE, c))]
      [] cmd = "DoneSeeking" ->
           [change_view(a, ViewOf("SeekBar")) EXCEPT
               !.w = Expect(finish_seek(@, c))]
      [] cmd = "CancelSeeking" ->
           [change_view(a, ViewOf("SeekBar")) EXCEPT
               !.w = Ok(cancel_seek(@, c))]
      [] cmd = "SeekFaster" -> [a EXCEPT !.w = seek_faster(@)]
      [] cmd = "SeekSlower" -> [a EXCEPT !.w = seek_slower(@)]
      [] cmd = "SeekExact" -> [a EXCEPT !.w = toggle_seek_exact(@)]
      [] cmd = "CharactersDebug" -> change_view(a, ViewOf("Characters"))

\* what a stage did, for the trace: the commands it wrote to the player,
\* the events it handled, the view it left, and whether it left the cache
\* and the seek session as they were
Entry(a0, a1, stage, what) ==
    [stage |-> stage, what |-> what, view |-> a1.view,
     sent |-> SubSeq(a1.w.sent, Len(a0.w.sent) + 1, Len(a1.w.sent)),
     handled |-> SubSeq(a1.w.handled, Len(a0.w.handled) + 1, Len(a1.w.handled)),
     cache |-> a1.w.observed_properties,
     kept |-> /\ a1.w.observed_properties = a0.w.observed_properties
              /\ a1.w.seek_state = a0.w.seek_state]

Logged(a0, a1, stage, what) ==
    [a1 EXCEPT !.trace = Append(@, Entry(a0, a1, stage, what))]

\* a stage runs only while the application has not panicked
Staged(a0, a1, stage, what) ==
    IF a0.w.status # "running" THEN a0 ELSE Logged(a0, a1, stage, what)

\* what Gamepad::update found in a tick: the event it returns and the
\* buttons just pressed
PressedInputs ==
    {<<>>} \cup {<<b>> : b \in Buttons}
    \cup {<<"Start", "South">>}

GamepadInputs ==
    [ev : {"None"}, pressed : PressedInputs]
    \cup [ev : {"Toast"}, pressed : {<<>>}]
    \cup [ev : {"LastGamepadDisconnected"},
          pressed : {<<>>, <<"South">>, <<"Start">>}]

\* Gamepad::update: every event of the gamepads sets last_input to now
gamepad_update(a, g) ==
    IF g.ev = "None" /\ g.pressed = <<>> THEN a ELSE [a EXCEPT !.idle = 0]

\* Gamepad::inactive_for
inactive_for(a, limit) == a.idle > limit

\* let ev = self.gamepad.update(); self.handle_event(ev);
GamepadStage(a, g) ==
    Staged(a, handle_event_app(gamepad_update(a, g), g.ev), "gamepad", g.ev)

\* the player stage with update() called after the commands
PlayerStage_skipped(a) == a

\* self.mpv.update().expect("mpv connection broke");
PlayerStage(a) ==
    Staged(a, [a EXCEPT !.w = Expect(update(@))], "player", "update")

\* the loop over the buttons just pressed, with the table of the view
\* that the tick had before the first command
RECURSIVE CommandStage(_, _, _, _)
CommandStage(a, actions, pressed, c) ==
    IF pressed = <<>> THEN a
    ELSE CommandStage(
             Staged(a, handle_command(a, get(actions, Head(pressed)), c),
                    "command", get(actions, Head(pressed))),
             actions, Tail(pressed), c)

\* the inactivity check with the limits never reached
Inactive_never(a) == FALSE

\* the inactivity check, on the view the commands left
Inactive(a) ==
    /\ IsSome(hide_on_inactive(a.view))
    /\ inactive_for(a, Unwrap(hide_on_inactive(a.view)))

InactivityStage(a, c) ==
    IF Inactive(a)
    THEN Staged(a, handle_command(a, "HideUi", c), "inactivity", "HideUi")
    ELSE Staged(a, a, "inactivity", "None")

\* get_property whose value the view paints and drops
Painted(w, name, ty, c) == get_property(w, name, ty, c).w

\* View::draw, the properties each view reads
DrawSeekBar(w, c) ==
    Painted(Painted(Painted(Painted(w, "media-title", "String", c),
                            "time-pos", "f32", c),
                    "duration", "f32", c),
            "percent-pos", "f32", c)

DrawSeeking(w, c) ==
    Painted(Painted(Painted(w, "percent-pos", "f32", c), "time-pos", "f32", c),
            "duration", "f32", c)

\* View::draw of the view the tick began with; in the main menu an
\* activated entry, the focused one, opens its submenu
draw(view, a, c) ==
    CASE view.kind = "MiniSeek" ->
           [a EXCEPT !.w = Painted(@, "percent-pos", "f32", c)]
      [] view.kind = "SeekBar" -> [a EXCEPT !.w = DrawSeekBar(@, c)]
      [] view.kind = "Seeking" -> [a EXCEPT !.w = DrawSeeking(@, c)]
      [] view.kind = "Menu" /\ ~IsSome(view.submenu) /\ a.activated ->
           [a EXCEPT !.view = MenuView(Some(c.entry))]
      [] OTHER -> a

DrawStage(view, a, c) == Staged(a, draw(view, a, c), "draw", view.kind)

\* the share of the screen height that a bottom panel takes, in percent
PanelPercent == 10

\* the bottom panels of the tick: the button prompts of the current view
\* and the panel of the view drawn
BottomPanels(view, a) ==
    (IF show_prompts(a.view) THEN {"prompts"} ELSE {})
    \cup (IF view.kind \in {"MiniSeek", "SeekBar", "Seeking"}
          THEN {view.kind} ELSE {})

\* available_rect().bottom() / screen_rect().bottom() * 100
new_sub_pos(view, a) == 100 - PanelPercent * Cardinality(BottomPanels(view, a))

\* the end of App::update: sub-pos follows the panels
SubPosSet(g, new, c) ==
    IF g.w.status = "running" /\ g.v # Some(new)
    THEN Ok(set_property(g.w, "sub-pos", Num(new), c))
    ELSE g.w

SubPosStage(view, a, c) ==
    Staged(a,
           [a EXCEPT !.w = SubPosSet(get_property(@, "sub-pos", "f32", c),
                                     new_sub_pos(view, a), c)],
           "sub-pos", "sync")

\* App::update after the first call, on the view the tick began with
Drawn(view, a, c) == SubPosStage(view, DrawStage(view, a, c), c)

\* the loop over the buttons with the table of the view of the moment
RECURSIVE CommandStageCurrent(_, _, _)
CommandStageCurrent(a, pressed, c) ==
    IF pressed = <<>> THEN a
    ELSE CommandStageCurrent(
             Staged(a, handle_command(a, get(button_actions(a.view),
                                             Head(pressed)), c),
                    "command", get(button_actions(a.view), Head(pressed))),
             Tail(pressed), c)

Commanded_current_table(a, g, c) ==
    InactivityStage(CommandStageCurrent(a, g.pressed, c), c)

Commanded(a, g, c) ==
    InactivityStage(CommandStage(a, button_actions(a.view), g.pressed, c), c)

app_update(a, g, c) ==
    Drawn(PlayerStage(GamepadStage(a, g)).view,
          Commanded(PlayerStage(GamepadStage(a, g)), g, c), c)

\* the choices of the environment in a tick: the command kind the player
\* refuses, where a seek lands, the entry of the menu that has the focus
Has(pressed, button) == \E i \in 1..Len(pressed) : pressed[i] = button

TickChoices(g) ==
    [refuse : IF Has(g.pressed, "DPadLeft") THEN {"none", "seek"} ELSE {"none"},
     t : IF Has(g.pressed, "DPadLeft") THEN SeekTargets(player.time, -1)
         ELSE {player.time},
     entry : IF Has(g.pressed, "East") THEN MenuEntry ELSE {"Volume"}]

\* the application at the start of a tick
AppW ==
    [w |-> W, view |-> app.view, idle |-> app.idle, activated |-> FALSE,
     trace |-> <<>>]

\* the state after a tick that ended in the record a
Ticked(a, g) ==
    /\ Stored(a.w, "app_update", g, None, None, None)
    /\ app' = [initialized |-> TRUE, view |-> a.view, idle |-> a.idle]
    /\ trace' = a.trace

\* App::update: the first call only initializes
AppUpdate ==
    /\ Running
    /\ IF ~app.initialized
       THEN Ticked(AppW, [ev |-> "None", pressed |-> <<>>])
       ELSE \E g \in GamepadInputs : \E c \in TickChoices(g) :
               Ticked(app_update(AppW, g, c), g)

\* most seconds without input that the model counts
MaxIdle == 6

\* time passes without input: a second while a view waits to be hidden,
\* all the seconds counted in the views that are never hidden
Wait ==
    /\ Running
    /\ app.initialized
    /\ app.idle < MaxIdle
    /\ app' = [app EXCEPT !.idle = IF IsSome(hide_on_inactive(app.view))
                                   THEN @ + 1 ELSE MaxIdle]
    /\ trace' = <<>>
    /\ Stored(W, "wait", None, None, None, None)

\* the player closes the connection, or reading from it fails
StreamFails ==
    /\ Running
    /\ stream = "open"
    /\ \E s \in {"eof", "error"} :
          Commit([W EXCEPT !.stream = s], "stream_fails", None, None)

\* the application beside a player that plays the end of the media and
\* whose first events are unread
InitApp ==
    Started(PlayerAt(FALSE, Dur),
            <<>>, Emit(PlayerAt(FALSE, Dur), "time-pos")
                     \o Emit(PlayerAt(FALSE, Dur), "duration"),
            <<>>, <<>>, <<>>)

NextApp == AppUpdate \/ Wait \/ StreamFails \/ PlayerAdvance

SpecApp == InitApp /\ [][NextApp]_vars

\* The reads of a property the player cannot always report.  A player
\* without a file reports time-pos without data; Event::PropertyChange takes
\* the missing data for null (#[serde(default)]) and update() caches it.
InitRead ==
    \E p \in BOOLEAN, t \in Times, i \in BOOLEAN :
        LET pl == [PlayerAt(p, t) EXCEPT !.idle = i]
        IN Started(pl, <<>>, Emit(pl, "time-pos") \o Emit(pl, "duration"),
                   <<>>, <<>>, <<>>)

\* the events a player writes when it loads a file or closes the one it
\* plays: one per observer of the properties of the file
EmitFile(pl) ==
    Emit(pl, "time-pos") \o Emit(pl, "percent-pos") \o Emit(pl, "duration")
    \o Emit(pl, "media-title")

\* the player loads a file, or closes the file it plays
LoadFile ==
    /\ Running
    /\ \E t \in Times :
          Commit([W EXCEPT
                     !.player = [@ EXCEPT !.idle = ~@, !.time = t],
                     !.socket = @ \o EmitFile([player EXCEPT !.idle = ~@,
                                                            !.time = t])],
                 "load_file", None, None)

NextRead == Update \/ GetProperty \/ LoadFile

SpecRead == InitRead /\ [][NextRead]_vars

\* The application under a player that may refuse what the commands send.
\* The buttons are those of the commands that talk to the player: A (East),
\* B (South), X (North), left and right; A and right may arrive in one tick.
CmdButtons == {"East", "South", "North", "DPadLeft", "DPadRight"}

CmdPressed ==
    {<<>>} \cup {<<b>> : b \in CmdButtons} \cup {<<"East", "DPadRight">>}

CmdInputs ==
    [ev : {"None"}, pressed : CmdPressed]
    \cup [ev : {"LastGamepadDisconnected"}, pressed : {<<>>}]

\* what the commands of a button write to the player: the targets the
\* player may refuse in a tick with that button
RefusableBy(button) ==
    CASE button = "East" -> {"pause"}
      [] button = "South" -> {"percent-pos", "pause"}
      [] button = "North" -> {"cycle"}
      [] button \in {"DPadLeft", "DPadRight"} -> {"seek"}

CmdChoices(g) ==
    [refuse : {"none"} \cup UNION {RefusableBy(g.pressed[i]) :
                                      i \in 1..Len(g.pressed)},
     t : IF Has(g.pressed, "DPadLeft") THEN SeekTargets(player.time, -1)
         ELSE IF Has(g.pressed, "DPadRight") THEN SeekTargets(player.time, 1)
         ELSE {player.time},
     entry : {"Volume"}]

\* App::update with these inputs
AppCommand ==
    /\ Running
    /\ IF ~app.initialized
       THEN Ticked(AppW, [ev |-> "None", pressed |-> <<>>])
       ELSE \E g \in CmdInputs : \E c \in CmdChoices(g) :
               Ticked(app_update(AppW, g, c), g)

NextCmd == AppCommand \/ Wait \/ PlayerAdvance

SpecCmd == InitApp /\ [][NextCmd]_vars

\* The client beside a player that also writes the events the client has no
\* use for: seek, and events of other tags.
PlayerNotifies ==
    /\ Running
    /\ Len(event_buffer) + Len(socket) < MaxLines
    /\ \E ev \in {SeekEvent, OtherEvent} :
          Commit([W EXCEPT !.socket = Append(@, ev)], "notify", None, None)

NextEvents ==
    \/ Update
    \/ GetProperty
    \/ TogglePause
    \/ StartSeek
    \/ PlayerNotifies

SpecEvents == Init /\ [][NextEvents]_vars

\* get_property step by step, beside a player that sends the first event of
\* an observation when it gets to it, or never.  While op is
\* "get_property_wait" the client is in the loop of get_property, arg being
\* the name it waits for.

\* the client after observe_property returned, the first event of the new
\* observation not written yet
Withheld(w) == [w EXCEPT !.socket = SubSeq(@, 1, Len(@) - 1)]

\* a turn of the loop that reports an error when it finds no event
poll_gives_up(w, name, ty) ==
    IF Matching(w.event_buffer, name) = <<>>
    THEN [w |-> [w EXCEPT !.err = TRUE], data |-> None, waiting |-> FALSE]
    ELSE [w |-> Received(w, FirstChange(w.event_buffer, name, ty)).w,
          data |-> Some(Matching(w.event_buffer, name)[1].data),
          waiting |-> FALSE]

\* a turn of the loop of get_property after read_events: return the first
\* property change of name in the buffer, deserialized from its data, or
\* sleep and go round again
poll(w, name, ty) ==
    IF Matching(w.event_buffer, name) = <<>>
    THEN [w |-> w, data |-> None, waiting |-> TRUE]
    ELSE [w |-> Received(w, FirstChange(w.event_buffer, name, ty)).w,
          data |-> Some(Matching(w.event_buffer, name)[1].data),
          waiting |-> FALSE]

\* in these steps arg is Some(name), the name get_property was called with,
\* and ret is Some(data), the JSON value it returned deserialized
InLoop == op = "get_property_wait"
Name == Unwrap(arg)

\* get_property up to the loop: the cached value, or observe_property
GetBegin ==
    /\ Running
    /\ ~InLoop
    /\ \E name \in GetNames :
          \E c \in Choices({"observe_property"}, {player.time}) :
              IF IsSome(get_property_cached(W, name, TypeOf(name)))
              THEN Returns(W, "get_property", Some(name),
                           Some(observed_properties[name]), None, None)
              ELSE IF observe_property(W, name, c).err
              THEN Returns(Expect(observe_property(W, name, c)),
                           "get_property", Some(name), None, None, None)
              ELSE Returns(Withheld(observe_property(W, name, c)),
                           "get_property_wait", Some(name), None, None, None)

\* one turn of the loop: read_events().expect, the scan of the buffer
WaitPoll ==
    /\ Running
    /\ InLoop
    /\ \E w \in {read_events(W)} :
          IF w.err
          THEN Returns(Expect(w), "get_property", arg, None, None, None)
          ELSE \E p \in {poll(w, Name, TypeOf(Name))} :
                  Returns(p.w,
                          IF p.waiting THEN "get_property_wait"
                          ELSE "get_property",
                          arg, p.data, None, None)

\* the player writes the first event of the observation the client waits for
PlayerEmits ==
    /\ Running
    /\ InLoop
    /\ Matching(event_buffer \o socket, Name) = <<>>
    /\ Returns([W EXCEPT !.socket =
                    Append(@, PropertyChange(Name, PlayerValue(player, Name)))],
               op, arg, ret, None, None)

\* the connection fails, whatever the client is doing
ConnectionFails ==
    /\ Running
    /\ stream = "open"
    /\ \E s \in {"eof", "error"} :
          Returns([W EXCEPT !.stream = s], op, arg, ret, None, None)

\* update() between the calls of get_property
UpdateBetween == ~InLoop /\ Update

NextWait ==
    \/ GetBegin
    \/ WaitPoll
    \/ PlayerEmits
    \/ ConnectionFails
    \/ UpdateBetween

\* the loop of get_property goes round as long as the call has not returned
SpecWait == Init /\ [][NextWait]_vars /\ WF_vars(WaitPoll)

---------------------------------------------------------------------------
\* The observation ids, from the construction of the client on.

\* the properties Mpv::new observes, in its order
NewNames == <<"time-pos", "duration", "playlist", "track-list", "chapter-list">>

\* the struct that Mpv::new builds before it observes anything: connected,
\* non-blocking, the counter 0, and a player nobody observes yet
InitObserve ==
    \E p \in BOOLEAN, t \in Times :
        /\ player = [PlayerAt(p, t) EXCEPT !.obs = [n \in PropNames |-> 0]]
        /\ event_buffer = <<>>
        /\ socket = <<>>
        /\ observed_properties = <<>>
        /\ next_observe_id = 0
        /\ seek_state = None
        /\ status = "running"
        /\ result = "ok"
        /\ sent = <<>>
        /\ op = "connect"
        /\ arg = None
        /\ ret = None
        /\ nonblocking = TRUE
        /\ io = <<>>
        /\ handled = <<>>
        /\ tracks = <<>>
        /\ chapters = <<>>
        /\ playlist = <<>>
        /\ stream = "open"
        /\ app = NewApp
        /\ trace = <<>>
        /\ fin = None
        /\ snap = None

\* the calls observe_property(..).unwrap() of Mpv::new from the i-th on; the
\* player refuses the one numbered bad, if any
RECURSIVE new_observes(_, _, _)
new_observes(w, i, bad) ==
    IF i > Len(NewNames) \/ w.status # "running" THEN w
    ELSE new_observes(
             Expect(observe_property(
                        w, NewNames[i],
                        [refuse |-> IF i = bad THEN "observe_property"
                                    ELSE "none",
                         t |-> w.player.time])),
             i + 1, bad)

Constructed == op # "connect"

\* Mpv::new, from the struct on
New ==
    /\ ~Constructed
    /\ \E bad \in 0..Len(NewNames) :
          Commit(new_observes(W, 1, bad), "new", None, None)

\* a call of observe_property by a user of the client, who gets the Result
ObserveNames == {"pause", "percent-pos"}

ObserveProperty ==
    /\ Running
    /\ \E name \in ObserveNames :
          \E c \in Choices({"observe_property"}, {player.time}) :
              Returns(observe_property(W, name, c), "observe_property",
                      name, None, None, None)

AfterNew == Constructed /\ (Update \/ GetProperty \/ StartSeek)

NextObserve == New \/ (Constructed /\ ObserveProperty) \/ AfterNew

SpecObserve == InitObserve /\ [][NextObserve]_vars

TypeOK ==
    /\ status \in {"running", "panicked"}
    /\ seek_state = None \/ Unwrap(seek_state).speed \in SeekSpeed

---------------------------------------------------------------------------
\* Vocabulary of the properties

Sess == Unwrap(seek_state)

PauseCmd == set_property_cmd("pause", Bool(TRUE))
UnpauseCmd == set_property_cmd("pause", Bool(FALSE))

Sends(log, cmd) == \E i \in 1..Len(log) : log[i] = cmd

Last(log) == log[Len(log)]

\* a session that has not ended
Live(st) == st # None /\ st[1].ended = None

\* a session that ended less than GraceSecs ago
Resumable(st) ==
    st # None /\ st[1].ended # None /\ st[1].ended[1] < GraceSecs

\* no session, or one that ended GraceSecs ago or earlier
Gone(st) ==
    st = None \/ (st[1].ended # None /\ st[1].ended[1] >= GraceSecs)

\* What the client knows of a property when a call begins: the cached
\* value; for a property that is not cached, the first change event of it
\* among the lines already written to the client, and else the value the
\* player reports when the property is observed.
Known(name) ==
    IF name \in DOMAIN observed_properties THEN observed_properties[name]
    ELSE LET m == SelectSeq(event_buffer \o socket, LAMBDA e : e.name = name)
         IN IF m # <<>> THEN m[1].data ELSE PlayerValue(player, name)

---------------------------------------------------------------------------
\* C1: a start_seek that follows a finish_seek within 60 s resumes the
\* session with the speed and the exact flag it had just before finish_seek;
\* after more than 60 s it yields a fresh session with the default speed of
\* 5 s and exact = false.
C1_ResumeWithinGrace ==
    [][(/\ op' = "start_seek"
        /\ status' = "running"
        /\ IsSome(fin)
        /\ seek_state # None
        /\ Sess.ended # None)
       => /\ Sess.ended[1] < 60
             => /\ seek_state'[1].speed = fin[1].speed
                /\ seek_state'[1].exact = fin[1].exact
          /\ Sess.ended[1] > 60
             => /\ SpeedSecs(seek_state'[1].speed) = 5
                /\ seek_state'[1].exact = FALSE]_vars

\* C1 witness: a session finished at 10m/exact has been resumed as such
C1_Witness ==
    /\ op = "start_seek"
    /\ status = "running"
    /\ IsSome(fin)
    /\ fin[1].speed = "TenMinutes"
    /\ fin[1].exact
    /\ Live(seek_state)
    /\ Sess.speed = "TenMinutes"
    /\ Sess.exact

---------------------------------------------------------------------------
\* C2: start_seek with no session snapshots the current position and pause
\* state and cancel_seek writes that snapshot back: after start_seek
\* immediately followed by a cancel_seek (one that returned Ok, so that the
\* player accepted what cancel_seek wrote) the player's position and pause
\* state are what they were before the session.
C2_PlayerUnchanged ==
    (op = "cancel_seek" /\ IsSome(snap) /\ result = "ok")
    => /\ player.time = snap[1].time
       /\ player.pause = snap[1].pause

---------------------------------------------------------------------------
\* C3: start_seek with no session, or with a session whose grace window has
\* expired, creates a live session with the default speed and exact = false
\* and sends set_property pause = true.
C3_FreshSession ==
    [][(op' = "start_seek" /\ status' = "running" /\ Gone(seek_state))
       => /\ Live(seek_state')
          /\ seek_state'[1].speed = "FiveSeconds"
          /\ seek_state'[1].exact = FALSE
          /\ Sends(sent', PauseCmd)]_vars

\* C3 witness: after a session finished at another speed and expired,
\* start_seek made a default one and paused
C3_Witness ==
    /\ op = "start_seek"
    /\ status = "running"
    /\ IsSome(fin)
    /\ fin[1].speed = "Minute"
    /\ Live(seek_state)
    /\ Sess.speed = "FiveSeconds"
    /\ ~Sess.exact
    /\ Sends(sent, PauseCmd)

---------------------------------------------------------------------------
\* C4: start_seek on a live session changes nothing (speed, exact, snapshot,
\* cache, buffer, player) and sends no command.
C4_StartSeekIdempotent ==
    [][(op' = "start_seek" /\ Live(seek_state))
       => /\ seek_state' = seek_state
          /\ sent' = <<>>
          /\ UNCHANGED <<observed_properties, next_observe_id, event_buffer,
                         socket, player, status>>]_vars

\* C4 witness: start_seek was called on a live session at 30s/exact and
\* sent nothing
C4_Witness ==
    /\ op = "start_seek"
    /\ status = "running"
    /\ sent = <<>>
    /\ Live(seek_state)
    /\ Sess.speed = "ThirtySeconds"
    /\ Sess.exact

---------------------------------------------------------------------------
---------------------------------------------------------------------------
\* the remaining time as the cache gives it: duration - position when both
\* are cached, the duration is positive and the position not negative
LeftKnown ==
    /\ "duration" \in DOMAIN observed_properties
    /\ "time-pos" \in DOMAIN observed_properties
    /\ observed_properties["duration"].n > 0
    /\ observed_properties["time-pos"].n >= 0

Left == observed_properties["duration"].n - observed_properties["time-pos"].n

\* C6: whatever the speed and the exact flag of the session, a seek_forward
\* issued when the known remaining time is less than the seek distance of the
\* speed sends its seek in exact mode.
C6_ExactNearEnd ==
    (/\ op = "seek_forward"
     /\ status = "running"
     /\ LeftKnown
     /\ Left < SpeedSecs(Sess.speed))
    => /\ sent # <<>>
       /\ Last(sent) = seek_cmd(SpeedSecs(Sess.speed), TRUE)

\* C6 witness: a forward seek of a 30s session without the exact flag went
\* out in exact mode
C6_Witness ==
    /\ op = "seek_forward"
    /\ status = "running"
    /\ LeftKnown
    /\ Left < 30
    /\ Sess.speed = "ThirtySeconds"
    /\ ~Sess.exact
    /\ Last(sent) = seek_cmd(30, TRUE)

---------------------------------------------------------------------------
SeekOps == {"seek_forward", "seek_backward"}

\* the distance the seek command of a seek operation carries
SentDelta(log) == Last(log)[2].n

\* the signed seek distance of operation o at speed s
Delta(o, s) == IF o = "seek_forward" THEN SpeedSecs(s) ELSE -SpeedSecs(s)

\* C7 as stated: seek_forward and seek_backward send a seek by +speed or
\* -speed of the session, and with no session or a session in grace they
\* create no session, take no snapshot and do not pause the player.
C7_SeekNeedsLiveSession ==
    [][(op' \in SeekOps /\ status' = "running")
       => /\ Live(seek_state)
             => /\ Last(sent')[1] = Str("seek")
                /\ SentDelta(sent') = Delta(op', Sess.speed)
          /\ ~Live(seek_state)
             => /\ seek_state' = seek_state
                /\ ~Sends(sent', PauseCmd)]_vars

\* C7 amended: seek_forward and seek_backward first obtain the session as
\* start_seek does: a live session is used as it is; with no session or an
\* expired one a fresh session is created (snapshot, default speed, exact =
\* false, pause); a session in its grace window is resumed (new snapshot,
\* same speed and exact, pause).  Then they send a seek by +speed or -speed
\* of that session.
C7_SeekObtainsSession ==
    [][(op' \in SeekOps /\ status' = "running")
       => /\ Live(seek_state')
          /\ Last(sent')[1] = Str("seek")
          /\ SentDelta(sent') = Delta(op', seek_state'[1].speed)
          /\ Live(seek_state)
             => /\ seek_state' = seek_state
                /\ Len(sent') = 1
          /\ ~Live(seek_state)
             => /\ Sends(sent', PauseCmd)
                /\ seek_state'[1].pos = Known("percent-pos").n
                /\ seek_state'[1].paused = Known("pause").b
          /\ Gone(seek_state)
             => /\ seek_state'[1].speed = "FiveSeconds"
                /\ seek_state'[1].exact = FALSE
          /\ Resumable(seek_state)
             => /\ seek_state'[1].speed = Sess.speed
                /\ seek_state'[1].exact = Sess.exact]_vars

\* C7 witness: a seek_backward created its session: it paused the player and
\* then sent a seek by -5 s
C7_Witness ==
    /\ op = "seek_backward"
    /\ status = "running"
    /\ Live(seek_state)
    /\ Sends(sent, PauseCmd)
    /\ Last(sent) = seek_cmd(-5, FALSE)

---------------------------------------------------------------------------
\* the ladder 1s < 5s < 30s < 1m < 10m
Ladder == <<"Second", "FiveSeconds", "ThirtySeconds", "Minute", "TenMinutes">>

Rank(s) == CHOOSE i \in 1..Len(Ladder) : Ladder[i] = s

Up(s) == Ladder[IF Rank(s) < Len(Ladder) THEN Rank(s) + 1 ELSE Rank(s)]
Down(s) == Ladder[IF Rank(s) > 1 THEN Rank(s) - 1 ELSE 1]

\* C8: seek_faster moves the speed of the session one step up the ladder
\* 1s < 5s < 30s < 1m < 10m and seek_slower one step down; at the top
\* seek_faster, at the bottom seek_slower changes nothing; with no session
\* both change nothing and create none; neither sends anything.
C8_SpeedLadder ==
    [][/\ [i \in 1..Len(Ladder) |-> SpeedSecs(Ladder[i])] = <<1, 5, 30, 60, 600>>
       /\ op' \in {"seek_faster", "seek_slower"}
          => /\ sent' = <<>>
             /\ UNCHANGED <<observed_properties, next_observe_id,
                            event_buffer, socket, player, status>>
             /\ seek_state = None => seek_state' = None
             /\ seek_state # None
                => seek_state' =
                      Some([Sess EXCEPT !.speed =
                               IF op' = "seek_faster" THEN Up(@) ELSE Down(@)])
      ]_vars

\* C8 witness: seek_slower has acted and the session is at the bottom
C8_Witness ==
    /\ op = "seek_slower"
    /\ seek_state # None
    /\ Sess.speed = "Second"
    /\ Sess.exact

---------------------------------------------------------------------------
RECURSIVE LongerEnds(_, _)
LongerEnds(s, fuel) ==
    /\ fuel > 0
    /\ \/ longer(s) = None
       \/ LongerEnds(longer(s)[1], fuel - 1)

RECURSIVE ShorterEnds(_, _)
ShorterEnds(s, fuel) ==
    /\ fuel > 0
    /\ \/ shorter(s) = None
       \/ ShorterEnds(shorter(s)[1], fuel - 1)

\* C9: from the speed of every session, repeating longer reaches None after
\* finitely many steps and so does repeating shorter; longer and shorter undo
\* each other wherever they are not None; longer is None only at 10m and
\* shorter only at 1s.
C9_LongerShorterInverse ==
    seek_state # None
    => LET s == Sess.speed IN
       /\ LongerEnds(s, Cardinality(SeekSpeed))
       /\ ShorterEnds(s, Cardinality(SeekSpeed))
       /\ longer(s) # None => shorter(longer(s)[1]) = <<s>>
       /\ shorter(s) # None => longer(shorter(s)[1]) = <<s>>
       /\ longer(s) = None <=> SpeedSecs(s) = 600
       /\ shorter(s) = None <=> SpeedSecs(s) = 1

\* C9 witness: seek_faster has brought a session to 10m, where longer ends
C9_Witness ==
    /\ op = "seek_faster"
    /\ seek_state # None
    /\ Sess.speed = "TenMinutes"
    /\ longer(Sess.speed) = None

---------------------------------------------------------------------------
\* C10: toggle_seek_exact negates the exact flag of the session and changes
\* nothing else; twice, it restores the flag; with no session it changes
\* nothing and creates none.
C10_ToggleExact ==
    [][op' = "toggle_seek_exact"
       => /\ sent' = <<>>
          /\ UNCHANGED <<observed_properties, next_observe_id, event_buffer,
                         socket, player, status>>
          /\ seek_state = None => seek_state' = None
          /\ seek_state # None
             => /\ seek_state' = Some([Sess EXCEPT !.exact = ~Sess.exact])
                /\ toggle_seek_exact(toggle_seek_exact(W)).seek_state
                      = seek_state]_vars

\* C10 witness: toggle_seek_exact has set the flag of a session at 1m
C10_Witness ==
    /\ op = "toggle_seek_exact"
    /\ seek_state # None
    /\ Sess.exact
    /\ Sess.speed = "Minute"

---------------------------------------------------------------------------
\* C11: finish_seek on a session marks it ended now, so that it is within
\* the grace window, and keeps its speed, its exact flag and its snapshot;
\* it sends one unpause when the snapshot says the player was not paused
\* before the session, and nothing when it was paused; with no session
\* finish_seek sends nothing and creates none.
C11_FinishSeek ==
    [][op' = "finish_seek"
       => /\ seek_state = None => seek_state' = None /\ sent' = <<>>
          /\ seek_state # None
             => /\ seek_state' = Some([Sess EXCEPT !.ended = Some(0)])
                /\ Resumable(seek_state')
                /\ sent' = IF Sess.paused THEN <<>> ELSE <<UnpauseCmd>>]_vars

\* C11 witness: finish_seek has ended a session at 30s whose snapshot was
\* taken from a playing player, and has sent the unpause
C11_Witness ==
    /\ op = "finish_seek"
    /\ seek_state # None
    /\ Sess.ended = Some(0)
    /\ Sess.speed = "ThirtySeconds"
    /\ ~Sess.paused
    /\ sent = <<UnpauseCmd>>

---------------------------------------------------------------------------
\* C12: cancel_seek, from a Live session or a session in Grace, discards
\* the session, writes the snapshotted position to the player as a
\* percent-pos property write, and sends an unpause exactly when the
\* snapshotted pause state was unpaused; with no session it sends nothing.
C12_CancelRestores ==
    [][op' = "cancel_seek"
       => /\ seek_state = None => seek_state' = None /\ sent' = <<>>
          /\ (Live(seek_state) \/ Resumable(seek_state))
             => /\ seek_state' = None
                /\ sent' # <<>>
                /\ sent'[1] = set_property_cmd("percent-pos", Num(Sess.pos))
                /\ Sends(sent', UnpauseCmd) <=> ~Sess.paused
                /\ Len(sent') = IF Sess.paused THEN 1 ELSE 2]_vars

---------------------------------------------------------------------------
\* a session that ended GraceSecs ago or earlier
Expired(st) == st # None /\ st[1].ended # None /\ st[1].ended[1] >= GraceSecs

SessionEdits == {"seek_faster", "seek_slower", "toggle_seek_exact"}

\* C13 as stated: once more than 60 s have passed since finish_seek the
\* session is gone without a further call: seek_speed() reports no speed,
\* seek_exact() reports false, and seek_faster, seek_slower and
\* toggle_seek_exact change nothing.
C13_ExpiredIsNoSession ==
    [][(Expired(seek_state) /\ Sess.ended[1] > 60)
       => /\ seek_speed(W) = None
          /\ ~seek_exact(W)
          /\ op' \in SessionEdits => seek_state' = seek_state]_vars

\* C13 amended: a session whose grace window has expired stays stored until
\* start_seek, seek_forward or seek_backward replaces it by a fresh one (or
\* cancel_seek discards it): seek_speed() and seek_exact() still report its
\* speed and flag, and seek_faster, seek_slower and toggle_seek_exact still
\* change them as on a live session; the next start_seek or seek yields a
\* fresh session with the default speed and exact = false.
C13_ExpiredSessionStays ==
    [][Expired(seek_state)
       => /\ seek_speed(W) = Some(Sess.speed)
          /\ seek_exact(W) = Sess.exact
          /\ op' = "seek_faster"
             => seek_state' = Some([Sess EXCEPT !.speed = Up(@)])
          /\ op' = "seek_slower"
             => seek_state' = Some([Sess EXCEPT !.speed = Down(@)])
          /\ op' = "toggle_seek_exact"
             => seek_state' = Some([Sess EXCEPT !.exact = ~@])
          /\ op' \in {"update", "cycle_property"} => seek_state' = seek_state
          /\ (op' \in {"start_seek", "seek_forward", "seek_backward"}
              /\ status' = "running")
             => /\ Live(seek_state')
                /\ seek_state'[1].speed = DefaultSpeed
                /\ ~seek_state'[1].exact
          /\ op' = "cancel_seek" => seek_state' = None]_vars

\* C13 witness: seek_faster has just raised the speed of a session that
\* ended 90 s ago from 5s to 30s, and seek_speed() reports 30s
C13_Witness ==
    /\ op = "seek_faster"
    /\ Expired(seek_state)
    /\ Sess.ended[1] > 60
    /\ seek_speed(W) = Some("ThirtySeconds")

---------------------------------------------------------------------------
\* C14: seek_stateless sends one seek command with the caller's delta and
\* exactness and nothing else (no pause), and leaves the session as it is
\* (absent, live, in grace or expired; speed, exact, ended and snapshot).
C14_SeekStatelessBypasses ==
    [][op' = "seek_stateless"
       => /\ Len(sent') = 1
          /\ sent'[1] = <<Str("seek"), Num(arg'.seconds),
                          Str(IF arg'.exact THEN "exact" ELSE "keyframes")>>
          /\ ~Sends(sent', PauseCmd)
          /\ seek_state' = seek_state]_vars

\* C14 witness: seek_stateless has sent an exact seek of -5 s, accepted by
\* the player, beside a session in its grace window
C14_Witness ==
    /\ op = "seek_stateless"
    /\ result = "ok"
    /\ Resumable(seek_state)
    /\ arg.exact
    /\ sent = <<seek_cmd(-5, TRUE)>>

---------------------------------------------------------------------------
\* the change events of name among the lines q, in order
Changes(q, name) == SelectSeq(q, LAMBDA e : e.name = name)

\* C15: update() applies the change events of its batch (the buffered
\* events, then the lines on the socket) in arrival order, last write wins:
\* afterwards the cached value of every property named in the batch is the
\* data of the last event of that name, and the other cached values are
\* untouched.
C15_LastWriteWins ==
    [][op' = "update"
       => \A n \in PropNames :
             IF Changes(event_buffer \o socket, n) # <<>>
             THEN /\ n \in DOMAIN observed_properties'
                  /\ observed_properties'[n]
                        = Last(Changes(event_buffer \o socket, n)).data
             ELSE /\ n \in DOMAIN observed_properties'
                        <=> n \in DOMAIN observed_properties
                  /\ n \in DOMAIN observed_properties
                        => observed_properties'[n] = observed_properties[n]
      ]_vars

\* C15 witness: update() has handled a batch with two time-pos events of
\* different data, and the cache holds the data of the later one
C15_Witness ==
    /\ op = "update"
    /\ Len(Changes(handled, "time-pos")) >= 2
    /\ Changes(handled, "time-pos")[1].data
          # Last(Changes(handled, "time-pos")).data
    /\ observed_properties["time-pos"] = Last(Changes(handled, "time-pos")).data

---------------------------------------------------------------------------
\* the events the client has not handled yet, in the order the player sent
\* them: the buffered ones, then the lines on the socket
Pending == event_buffer \o socket

IsPrefix(a, b) == Len(a) <= Len(b) /\ SubSeq(b, 1, Len(a)) = a

\* C16: events are handled in the order the player sent them, each exactly
\* once: update() passes exactly the pending events to handle_event, the
\* buffered ones first, and leaves none; every other step handles none and
\* keeps the pending events, in order, in front of the events that arrive
\* during the step, and keeps what was buffered in the buffer.
C16_EventsInOrder ==
    [][/\ op' = "update"
          => /\ handled' = Pending
             /\ event_buffer' = <<>>
             /\ socket' = <<>>
       /\ op' # "update"
          => /\ handled' = <<>>
             /\ IsPrefix(Pending, Pending')
             /\ IsPrefix(event_buffer, event_buffer')
             /\ \A i \in 1..Len(Pending') : IsEvent(Pending'[i])]_vars

\* C16 witness: while waiting for its response, cycle_property has buffered
\* the time-pos event the player sent when it played on to 1000 s, behind
\* the two events of the construction
C16_Witness ==
    /\ op = "cycle_property"
    /\ result = "ok"
    /\ Len(event_buffer) = 3
    /\ event_buffer[1].data = Num(400)
    /\ event_buffer[3] = PropertyChange("time-pos", Num(1000))

---------------------------------------------------------------------------
\* C17: requests and responses alternate on the stream.  In every step the
\* client writes a request, then reads exactly one response line, the
\* player's answer to that request, before it writes the next request; when
\* the step is over no response is outstanding: the lines left in the
\* buffer and on the socket are events.
C17_RequestsAlternate ==
    /\ Len(io) = 2 * Len(sent)
    /\ \A i \in 1..Len(sent) :
          /\ io[2 * i - 1].k = "write"
          /\ io[2 * i - 1].of = sent[i]
          /\ io[2 * i].k = "response"
          /\ io[2 * i].of = sent[i]
    /\ \A i \in 1..Len(event_buffer) : IsEvent(event_buffer[i])
    /\ \A i \in 1..Len(socket) : IsEvent(socket[i])

\* C17 witness: a start_seek that wrote three requests has read the three
\* responses in turn, past event lines that it buffered
C17_Witness ==
    /\ op = "start_seek"
    /\ Len(sent) = 3
    /\ Len(io) = 6
    /\ io[6].of = PauseCmd
    /\ Len(event_buffer) >= 2

---------------------------------------------------------------------------
\* the operations that are one call of command()
OneCommand == {"cycle_property", "seek_stateless"}

\* C18: command() returns Ok exactly when the error field of the response
\* it read is "success", and an error for every other value; either way the
\* events it met while waiting are in the buffer afterwards, behind those
\* already buffered.
C18_SuccessIsLiteral ==
    [][op' \in OneCommand
       => /\ Len(io') = 2
          /\ io'[2].k = "response"
          /\ result' = "ok" <=> io'[2].error = "success"
          /\ result' = "err" <=> io'[2].error # "success"
          /\ event_buffer' = event_buffer \o socket]_vars

\* C18 witness: the player has refused the seek of seek_stateless, which
\* returned an error and kept the events it buffered while waiting
C18_Witness ==
    /\ op = "seek_stateless"
    /\ result = "err"
    /\ io[2].error = "invalid parameter"
    /\ Len(event_buffer) = 3

---------------------------------------------------------------------------
\* C19 as stated: the connection is in blocking mode for the whole round
\* trip of every command, from the write of the request until the response
\* has been read, and non-blocking again when the command has returned.
C19_BlockingRoundTrip ==
    /\ nonblocking
    /\ \A i \in 1..Len(io) : ~io[i].nonblocking

\* C19 amended: every request is written while the connection is still
\* non-blocking; the connection is in blocking mode while the response is
\* read; it is non-blocking again when command() has returned, with Ok or
\* with a command error, and so between commands.
C19_BlockingWhileReading ==
    /\ nonblocking
    /\ \A i \in 1..Len(io) :
          /\ io[i].k = "write" => io[i].nonblocking
          /\ io[i].k = "response" => ~io[i].nonblocking

\* C19 witness: a seek_stateless that the player refused has written its
\* request in non-blocking mode, read the response in blocking mode and
\* left the connection non-blocking
C19_Witness ==
    /\ op = "seek_stateless"
    /\ result = "err"
    /\ nonblocking
    /\ io[1].k = "write"
    /\ io[1].nonblocking
    /\ io[2].k = "response"
    /\ ~io[2].nonblocking

---------------------------------------------------------------------------
\* the value that a change event carries
Data(v) == IF v.t = "bool" THEN v.b ELSE v.n

\* C20: get_property on a property with a cached value returns that value
\* and sends nothing.  On a property with no cached value it sends exactly
\* one observe_property command, with the next observer id, and when it
\* returns a change event of that name has arrived: it returns the data of
\* the first such event in the buffer, which is the player's answer to the
\* observation when no older one was pending.
C20_GetProperty ==
    [][op' = "get_property"
       => IF arg' \in DOMAIN observed_properties
          THEN /\ sent' = <<>>
               /\ ret' = Some(Data(observed_properties[arg']))
               /\ UNCHANGED <<observed_properties, next_observe_id,
                              event_buffer, socket, player, status>>
          ELSE /\ sent' = <<<<Str("observe_property"), Num(next_observe_id),
                              Str(arg')>>>>
               /\ status' = "running"
                  => /\ Changes(event_buffer', arg') # <<>>
                     /\ ret' = Some(Data(Changes(event_buffer', arg')[1].data))
                     /\ Changes(Pending, arg') = <<>>
                        => ret' = Some(Data(PlayerValue(player, arg')))
      ]_vars

\* C20 witness: get_property("pause"), not cached, has observed the
\* property and returned the data of the first pause event of the buffer,
\* an event older than the answer to its observation
C20_Witness ==
    /\ op = "get_property"
    /\ arg = "pause"
    /\ "pause" \notin DOMAIN observed_properties
    /\ Len(sent) = 1
    /\ Len(Changes(event_buffer, "pause")) >= 2
    /\ ret = Some(Data(Changes(event_buffer, "pause")[1].data))
    /\ ret # Some(Data(Last(Changes(event_buffer, "pause")).data))

---------------------------------------------------------------------------
\* a track list in which the tracks of each type are next to each other
Grouped(trs) ==
    \A i, j, k \in 1..Len(trs) :
        (i < j /\ j < k /\ trs[i].ty = trs[k].ty) => trs[j].ty = trs[i].ty

\* C29: on a track list grouped by type, tracks_of_type(ty) returns exactly
\* the tracks of type ty, in list order (so none of another type, and the
\* empty slice when there is no track of type ty).
C29_TracksOfType ==
    (op = "tracks_of_type" /\ Grouped(tracks))
    => ret = SelectSeq(tracks, LAMBDA t : t.ty = arg)

\* C29 witness: tracks_of_type(audio) has returned the two audio tracks
\* that follow a video track
C29_Witness ==
    /\ op = "tracks_of_type"
    /\ arg = "audio"
    /\ Len(tracks) = 3
    /\ tracks[1].ty = "video"
    /\ Len(ret) = 2
    /\ ret[1].id = 2
    /\ ret[2].id = 3

---------------------------------------------------------------------------
\* the chapters that chapters() returned as current
CurrentOnes == {i \in 1..Len(ret) : ret[i].current}

\* chapter i starts at or before the cached position and no later chapter
\* does
LastStarted(i) ==
    /\ IsSome(time_pos(W))
    /\ chapters[i].time <= Unwrap(time_pos(W))
    /\ \A j \in 1..Len(chapters) :
          j > i => chapters[j].time > Unwrap(time_pos(W))

\* C28: chapters() marks as current exactly the last chapter whose start is
\* at or before the cached position: none when the position is unknown,
\* never more than one.  Each chapter but the last has the duration
\* next.start - start, and the last one the media duration - start.
C28_Chapters ==
    op = "chapters" =>
        /\ Len(ret) = Len(chapters)
        /\ \A i \in 1..Len(ret) : ret[i].current <=> LastStarted(i)
        /\ ~IsSome(time_pos(W)) => CurrentOnes = {}
        /\ Cardinality(CurrentOnes) <= 1
        /\ \A i \in 1..Len(ret) :
              /\ ret[i].start = chapters[i].time
              /\ i < Len(ret) =>
                    ret[i].duration = chapters[i + 1].time - chapters[i].time
              /\ (i = Len(ret) /\ IsSome(duration(W))) =>
                    ret[i].duration = Unwrap(duration(W)) - chapters[i].time

\* C28 witness: starts 0, 10, 30 with duration 40 and position 15 have given
\* the second chapter as the current one, with duration 20
C28_Witness ==
    /\ op = "chapters"
    /\ Len(chapters) = 3
    /\ chapters[1].time = 0
    /\ chapters[2].time = 10
    /\ chapters[3].time = 30
    /\ duration(W) = Some(40)
    /\ time_pos(W) = Some(15)
    /\ CurrentOnes = {2}
    /\ ret[2].duration = 20
    /\ ret[3].duration = 10

---------------------------------------------------------------------------
\* the stored list of the property name, among the lists tr, ch and pl
ListField(name, tr, ch, pl) ==
    CASE name = "track-list" -> tr
      [] name = "chapter-list" -> ch
      [] name = "playlist" -> pl

\* the list that the data of a well-formed event holds
ListOf(name, data) ==
    CASE name = "track-list" -> Unwrap(FromList(data, TrackOf))
      [] name = "chapter-list" -> Unwrap(FromList(data, ChapterRawOf))
      [] name = "playlist" -> Unwrap(FromList(data, PlaylistEntryOf))

\* the list of name after handling the events evs in order: the list of the
\* last well-formed event of name, the list before when there is none
ListAfter(name, evs, before) ==
    LET good == {i \in 1..Len(evs) :
                    evs[i].name = name /\ evs[i].data \in GoodData(name)}
    IN IF good = {} THEN before ELSE ListOf(name, evs[Highest(good)].data)

\* C30: a property-change event for playlist, track-list or chapter-list
\* whose data does not deserialize leaves the stored list as it was, without
\* a panic and without failing update(); a well-formed one replaces the
\* whole list.
C30_ListChanges ==
    [][op' = "update" =>
         /\ status' = "running"
         /\ result' = "ok"
         /\ \A name \in ListNames :
               ListField(name, tracks', chapters', playlist')
                  = ListAfter(name, handled',
                              ListField(name, tracks, chapters, playlist))]_vars

\* C30 witness: update() has handled a track-list event whose data does not
\* deserialize, and the two tracks stored before are still there
C30_Witness ==
    /\ op = "update"
    /\ handled # <<>>
    /\ \A i \in 1..Len(handled) :
          handled[i].name = "track-list" /\ handled[i].data \in BadData("track-list")
    /\ Len(tracks) = 2
    /\ tracks[2] = [ty |-> "audio", id |-> 2, selected |-> TRUE]
    /\ status = "running"
    /\ result = "ok"

---------------------------------------------------------------------------
\* the cached read of pause in the cache props
CachedPause(props) ==
    get_property_cached([observed_properties |-> props], "pause", "bool")

\* C21: when set_property("pause", b) has succeeded and the next update()
\* drains a property-change event for pause, the cached read of pause
\* yields b, for b true and for b false.
C21_PauseRoundTrip ==
    [][(/\ op = "set_property"
        /\ result = "ok"
        /\ op' = "update"
        /\ Changes(handled', "pause") # <<>>)
       => CachedPause(observed_properties') = Some(arg.b)]_vars

\* C21 witness: set_property("pause", true) has succeeded while the cache
\* held false; the player's pause event waits for the next update()
C21_Witness ==
    /\ op = "set_property"
    /\ result = "ok"
    /\ arg = Bool(TRUE)
    /\ status = "running"
    /\ CachedPause(observed_properties) = Some(FALSE)
    /\ Changes(Pending, "pause") # <<>>
    /\ Last(Changes(Pending, "pause")).data = Bool(TRUE)

---------------------------------------------------------------------------
\* the stages that the last tick ran, in order
Stages == [i \in 1..Len(trace) |-> trace[i].stage]

\* C22: update() never blocks.  It reads in non-blocking mode; when the
\* socket has no more data it handles the lines it read and returns
\* success, and the tick goes on.  When the stream has ended or reading
\* fails otherwise update() returns an error and handles nothing, and the
\* tick ends there in a panic: no later stage runs.
C22_UpdateNeverBlocks ==
    [][(op' = "app_update" /\ app.initialized) =>
          /\ nonblocking
          /\ Len(trace') >= 2
          /\ trace'[2].stage = "player"
          /\ stream = "open" =>
                /\ trace'[2].handled = Pending
                /\ Len(trace') > 2
          /\ stream # "open" =>
                /\ trace'[2].handled = <<>>
                /\ Stages' = <<"gamepad", "player">>
                /\ status' = "panicked"
                /\ result' = "err"]_vars

\* C22 witness: the player has closed the stream with two lines unread;
\* update() has read them and returned the error, and the tick panicked
C22_Witness ==
    /\ op = "app_update"
    /\ stream = "eof"
    /\ status = "panicked"
    /\ Len(event_buffer) = 2
    /\ handled = <<>>
    /\ Stages = <<"gamepad", "player">>

---------------------------------------------------------------------------
\* the entries of the last tick's trace for the stage, in order
StageEntries(tr, stage) == SelectSeq(tr, LAMBDA e : e.stage = stage)

\* a tick of the initialized application that began in the view Hidden with
\* South as the only button pressed
SouthInHidden ==
    /\ op' = "app_update"
    /\ app.initialized
    /\ app.view = HiddenView
    /\ arg'.pressed = <<"South">>

\* C23 as stated: the whole tick sends no command to the player and leaves
\* the cache and the seek session unchanged, and ends in the view SeekBar.
C23_TickTouchesNothing ==
    [][(SouthInHidden /\ status' = "running") =>
          /\ app'.view = ViewOf("SeekBar")
          /\ sent' = <<>>
          /\ observed_properties' = observed_properties
          /\ seek_state' = seek_state]_vars

\* C23: in the view Hidden a tick whose pressed buttons are [South] maps
\* South through Hidden's table to ShowUi and ends with the view SeekBar;
\* executing the command sends nothing to the player and leaves the cache
\* and the seek session unchanged.  (Draining the player events and the
\* sub-pos sync of the same tick may do both.)  A tick is one that runs to
\* its end: one that panics draws nothing and ends the application.
C23_ShowUi ==
    [][(SouthInHidden /\ status' = "running") =>
          /\ Len(StageEntries(trace', "command")) = 1
          /\ StageEntries(trace', "command")[1].what = "ShowUi"
          /\ StageEntries(trace', "command")[1].view = ViewOf("SeekBar")
          /\ StageEntries(trace', "command")[1].sent = <<>>
          /\ StageEntries(trace', "command")[1].kept
          /\ app'.view = ViewOf("SeekBar")
          /\ seek_state' = seek_state]_vars

\* C23 witness: a tick that drew the view Hidden has executed ShowUi for
\* South, which sent nothing, and has then moved the subtitles for the
\* button prompts of the view SeekBar
C23_Witness ==
    /\ op = "app_update"
    /\ arg.pressed = <<"South">>
    /\ status = "running"
    /\ app.view = ViewOf("SeekBar")
    /\ Len(StageEntries(trace, "command")) = 1
    /\ StageEntries(trace, "command")[1].what = "ShowUi"
    /\ StageEntries(trace, "command")[1].sent = <<>>
    /\ StageEntries(trace, "draw")[1].what = "Hidden"
    /\ sent = <<set_property_cmd("sub-pos", Num(100 - PanelPercent))>>

---------------------------------------------------------------------------
\* a tick of the initialized application without any gamepad input that
\* runs to its end
QuietTick ==
    /\ op' = "app_update"
    /\ app.initialized
    /\ arg' = [ev |-> "None", pressed |-> <<>>]
    /\ status' = "running"

\* the view has waited longer than its limit: SeekBar more than 5 s,
\* MiniSeek more than 2 s
Overdue ==
    \/ app.view.kind = "SeekBar" /\ app.idle > 5
    \/ app.view.kind = "MiniSeek" /\ app.idle > 2

\* C24: when the view is SeekBar and no input has arrived for more than
\* 5 s, or MiniSeek and more than 2 s, the tick executes HideUi and the
\* view becomes Hidden; in every other case, so in every other view, a tick
\* without input leaves the view as it is.
C24_HideOnInactive ==
    [][QuietTick =>
          /\ Len(StageEntries(trace', "inactivity")) = 1
          /\ Overdue =>
                /\ StageEntries(trace', "inactivity")[1].what = "HideUi"
                /\ app'.view = HiddenView
          /\ ~Overdue =>
                /\ StageEntries(trace', "inactivity")[1].what = "None"
                /\ app'.view = app.view]_vars

\* C24 witness: a tick has hidden the view SeekBar after 6 s without input
C24_Witness ==
    /\ op = "app_update"
    /\ status = "running"
    /\ app.idle = 6
    /\ app.view = HiddenView
    /\ StageEntries(trace, "player")[1].view = ViewOf("SeekBar")
    /\ StageEntries(trace, "inactivity")[1].what = "HideUi"

---------------------------------------------------------------------------
\* a tick of the initialized application whose gamepad event is the loss
\* of the last gamepad
DisconnectTick ==
    /\ op' = "app_update"
    /\ app.initialized
    /\ arg'.ev = "LastGamepadDisconnected"

\* the commands that the last tick executed for its buttons, in order
Dispatched(tr) ==
    [i \in 1..Len(StageEntries(tr, "command")) |->
        StageEntries(tr, "command")[i].what]

\* C25: after a LastGamepadDisconnected event is handled the view is
\* Hidden, whatever it was before; the event is handled before the commands
\* of the tick, so the buttons pressed in the same tick are mapped through
\* the table of Hidden.
C25_DisconnectHides ==
    [][DisconnectTick =>
          /\ trace'[1].stage = "gamepad"
          /\ trace'[1].what = "LastGamepadDisconnected"
          /\ trace'[1].view = HiddenView
          /\ status' = "running" =>
                Dispatched(trace')
                   = [i \in 1..Len(arg'.pressed) |->
                         get(button_actions(HiddenView), arg'.pressed[i])]]_vars

\* C25 witness: the last gamepad went away during a seek session with South
\* pressed in the same tick; South was ShowUi, as in Hidden, and not the
\* CancelSeeking of the view Seeking, and the session is still live
C25_Witness ==
    /\ op = "app_update"
    /\ status = "running"
    /\ arg = [ev |-> "LastGamepadDisconnected", pressed |-> <<"South">>]
    /\ trace[1].view = HiddenView
    /\ IsLive(seek_state)
    /\ Dispatched(trace) = <<"ShowUi">>
    /\ app.view = ViewOf("SeekBar")

---------------------------------------------------------------------------
\* the stages of a whole tick that executes n button commands
Pipeline(n) ==
    <<"gamepad", "player">> \o [i \in 1..n |-> "command"]
       \o <<"inactivity", "draw", "sub-pos">>

\* the cache holds, for every property of the events evs, the data of the
\* last of them
Applied(evs, cache) ==
    \A i \in 1..Len(evs) :
        /\ evs[i].name \in DOMAIN cache
        /\ cache[evs[i].name] = Last(Changes(evs, evs[i].name)).data

\* C26: each tick runs its stages in one fixed order: the gamepad event,
\* then update(), which drains all the player events available and applies
\* them to the cache, then the commands of the buttons, then the inactivity
\* check, then the draw.  No other stage handles a player event, and the
\* first stage after update() starts from the cache that update() left.
C26_TickPipeline ==
    [][(op' = "app_update" /\ app.initialized) =>
          /\ IsPrefix(Stages', Pipeline(Len(arg'.pressed)))
          /\ status' = "running" => Stages' = Pipeline(Len(arg'.pressed))
          /\ Len(trace') >= 2
          /\ stream = "open" =>
                /\ trace'[2].handled = Pending
                /\ Applied(Pending, trace'[2].cache)
          /\ \A i \in 1..Len(trace') : i # 2 => trace'[i].handled = <<>>
          /\ (Len(trace') >= 3 /\ trace'[3].kept) =>
                trace'[3].cache = trace'[2].cache]_vars

\* C26 witness: a tick has drained player events, then started a seek for
\* the button East, then checked the inactivity, then drawn
C26_Witness ==
    /\ op = "app_update"
    /\ status = "running"
    /\ Stages = Pipeline(1)
    /\ trace[2].handled # <<>>
    /\ ~trace[2].kept
    /\ Dispatched(trace) = <<"StartSeeking">>
    /\ trace[3].sent # <<>>
    /\ app.view = ViewOf("Seeking")

---------------------------------------------------------------------------
\* a tick of the initialized application that began in the menu with South,
\* the B button, as its only input and that runs to its end
SouthInMenu ==
    /\ op' = "app_update"
    /\ app.initialized
    /\ app.view.kind = "Menu"
    /\ arg' = [ev |-> "None", pressed |-> <<"South">>]
    /\ status' = "running"

\* C27: a view change replaces the whole view: after the show-menu command
\* the menu has no submenu, whatever submenu was open before.  So with a
\* submenu open the B button returns to the main menu, and in the main menu
\* the B button hides the UI.
C27_ViewReplaced ==
    [][/\ SouthInMenu =>
             /\ IsSome(app.view.submenu) =>
                   /\ Dispatched(trace') = <<"ShowMenu">>
                   /\ app'.view = MenuView(None)
             /\ ~IsSome(app.view.submenu) =>
                   /\ Dispatched(trace') = <<"HideUi">>
                   /\ app'.view = HiddenView
       /\ op' = "app_update" =>
             \A i \in 1..Len(trace') :
                 (trace'[i].stage = "command" /\ trace'[i].what = "ShowMenu")
                 => trace'[i].view = MenuView(None)]_vars

\* C27 witness: with the submenu Playlist open the B button has brought
\* back the main menu
C27_Witness ==
    /\ op = "app_update"
    /\ status = "running"
    /\ arg = [ev |-> "None", pressed |-> <<"South">>]
    /\ trace[2].view = MenuView(Some("Playlist"))
    /\ Dispatched(trace) = <<"ShowMenu">>
    /\ app.view = MenuView(None)

---------------------------------------------------------------------------
\* the cache holds a value for name that does not deserialize into the type
\* its readers ask for
Unparsable(name) ==
    /\ name \in DOMAIN observed_properties
    /\ ~IsSome(FromValue(observed_properties[name], TypeOf(name)))

\* C31: get_property on a property whose cached value cannot be deserialized
\* into the requested type panics at that read.
C31_UnparsablePanics ==
    [][(op' = "get_property" /\ Unparsable(arg')) => status' = "panicked"]_vars

---------------------------------------------------------------------------
\* the commands whose call of the client is unwrapped
FatalCmds ==
    {"TogglePause", "SeekForward", "SeekBackward", "SeekForwardStateless",
     "SeekBackwardStateless", "DoneSeeking"}

\* req is a request that the command what sends for itself: the cycle of
\* pause, the seek, the unpause of finish_seek, the two writes of cancel_seek
OwnRequest(what, req) ==
    CASE what = "TogglePause" -> req = cycle_property_cmd("pause")
      [] what \in {"SeekForward", "SeekBackward", "SeekForwardStateless",
                   "SeekBackwardStateless"} -> req[1] = Str("seek")
      [] what = "DoneSeeking" -> req = UnpauseCmd
      [] what = "CancelSeeking" ->
           \/ req = UnpauseCmd
           \/ req[1] = Str("set_property") /\ req[2] = Str("percent-pos")
      [] OTHER -> FALSE

\* the player answered a request of the command with an error
RefusedIn(log, what) ==
    \E i \in 1..Len(log) :
        /\ log[i].k = "response"
        /\ log[i].error # "success"
        /\ OwnRequest(what, log[i].of)

\* the commands the tick executed, in order
Cmds(tr) == StageEntries(tr, "command")

---------------------------------------------------------------------------
\* the events of a queue that are no property changes: seek events and
\* events of unknown tags; and its property changes
ForeignIn(q) == SelectSeq(q, LAMBDA e : e.event # "property-change")
ChangesIn(q) == SelectSeq(q, LAMBDA e : e.event = "property-change")

\* the calls that wait for a response
AwaitingOps == {"cycle_property", "get_property", "start_seek"}

\* every response read answers the request written just before it
ResponsesPaired(log) ==
    \A i \in 1..Len(log) :
        log[i].k = "response"
        => /\ i > 1
           /\ log[i - 1].k = "write"
           /\ log[i].of = log[i - 1].of

\* what update() would have left had it handled the property changes only
ChangesOnly == HandleAll(W, ChangesIn(event_buffer \o socket))

\* C33: a seek event and an event of an unknown tag are accepted without
\* error.  update() passes them to handle_event and returns Ok, and they
\* change neither the cache, nor the stored lists, nor the seek session.  A
\* call that waits for a response buffers them in their order, takes none of
\* them for the response, and fails only when the player answers with an
\* error.
C33_ForeignEventsIgnored ==
    [][/\ (op' = "update" /\ ForeignIn(event_buffer \o socket) # <<>>)
          => /\ status' = "running"
             /\ result' = "ok"
             /\ ForeignIn(handled') = ForeignIn(event_buffer \o socket)
             /\ observed_properties' = ChangesOnly.observed_properties
             /\ tracks' = ChangesOnly.tracks
             /\ chapters' = ChangesOnly.chapters
             /\ playlist' = ChangesOnly.playlist
             /\ seek_state' = seek_state
             /\ (ChangesIn(event_buffer \o socket) = <<>>)
                => UNCHANGED <<observed_properties, tracks, chapters, playlist>>
       /\ (op' \in AwaitingOps /\ sent' # <<>> /\ ForeignIn(socket) # <<>>)
          => /\ ForeignIn(event_buffer') = ForeignIn(event_buffer \o socket)
             /\ ResponsesPaired(io')
             /\ (result' = "err" \/ status' = "panicked")
                => \E i \in 1..Len(io') :
                      io'[i].k = "response" /\ io'[i].error # "success"
             /\ UNCHANGED <<observed_properties, tracks, chapters, playlist>>
             /\ op' # "start_seek" => seek_state' = seek_state]_vars

\* C33 witness: during a live session a toggle of pause has read a seek
\* event and an event of an unknown tag ahead of its response, and returned
\* Ok with both in the buffer
C33_Witness ==
    /\ op = "cycle_property"
    /\ result = "ok"
    /\ Live(seek_state)
    /\ ForeignIn(event_buffer) = <<SeekEvent, OtherEvent>>
    /\ Len(io) = 2
    /\ io[2].k = "response"
    /\ io[2].error = "success"

---------------------------------------------------------------------------
\* the call of get_property is in its loop; a property change of the name
\* it waits for is written or read and not yet found by the loop
Waiting == InLoop /\ status = "running"
EventPending == Waiting /\ Matching(event_buffer \o socket, Name) # <<>>

\* as long as the connection is open and no such event is there, every step
\* leaves the call in its loop, without an error and without a panic
StaysWaiting ==
    [][(Waiting /\ ~EventPending /\ stream = "open")
       => /\ op' = "get_property_wait"
          /\ arg' = arg
          /\ status' = "running"
          /\ result' = "ok"]_vars

\* the call returns a value only when it has read such an event, and the
\* value is the data of the first one in the buffer
ReturnsOnEvent ==
    [][(Waiting /\ op' = "get_property" /\ status' = "running")
       => /\ Matching(event_buffer', Name) # <<>>
          /\ ret' = Some(Matching(event_buffer', Name)[1].data)
          /\ IsSome(FromValue(Unwrap(ret'), TypeOf(Name)))]_vars

\* the player never emits: the call never returns
NeverEmitted ==
    []((Waiting /\ [](stream = "open" /\ ~EventPending)) => []Waiting)

\* the assumption on the player: the connection stays open, and whenever the
\* call waits the event is eventually there
PlayerEmitsEventually ==
    /\ [](stream = "open")
    /\ [](Waiting => <>(EventPending \/ ~Waiting))

\* C34: the wait of get_property has no timeout.  On an uncached property
\* the call stays in its loop, without an error, as long as no property
\* change of that name has been read; it returns only when one has, with
\* its data; if the player never emits one the call never returns; and if
\* the player eventually emits it, the call eventually returns.
C34_NoTimeout ==
    /\ StaysWaiting
    /\ ReturnsOnEvent
    /\ NeverEmitted
    /\ PlayerEmitsEventually => [](Waiting => <>(op = "get_property"))

\* C34 witness: the call has observed pause, has gone round its loop and is
\* still in it: the connection is open and the player has emitted nothing
C34_Witness ==
    /\ Waiting
    /\ Name = "pause"
    /\ player.obs["pause"] = 1
    /\ stream = "open"
    /\ ~EventPending
    /\ sent = <<>>
    /\ socket = <<>>

---------------------------------------------------------------------------
\* the ids of the observe_property requests among the requests reqs, in the
\* order they were written
ObserveRequests(reqs) ==
    SelectSeq(reqs, LAMBDA r : r[1].s = "observe_property")
ObserveIds(reqs) ==
    [i \in 1..Len(ObserveRequests(reqs)) |-> ObserveRequests(reqs)[i][2].n]

\* the ids from a up to and without b
IdsFrom(a, b) == [i \in 1..(b - a) |-> a + i - 1]

\* C35: the counter of observation ids starts at 0, and the observe requests
\* that an operation writes carry the counter's value before the operation
\* and the values after it one by one, up to and without the counter's value
\* after the operation, whether the player accepts the requests or not: so
\* every request has the id of the one before plus one, and no id is used
\* twice.
C35_ObserveIdsIncrease ==
    /\ next_observe_id = 0
    /\ [][/\ next_observe_id' >= next_observe_id
          /\ ObserveIds(sent') = IdsFrom(next_observe_id, next_observe_id')]_vars

\* C35 witness: after Mpv::new took the ids 0 to 4 and the player refused
\* the observe request with the id 5, a call of start_seek has observed
\* percent-pos and pause with the ids 6 and 7
C35_Witness ==
    /\ op = "start_seek"
    /\ ObserveIds(sent) = <<6, 7>>
    /\ next_observe_id = 8
    /\ player.obs["percent-pos"] + player.obs["pause"] = 2
    /\ player.obs["time-pos"] = 1

---------------------------------------------------------------------------
\* the end of a tick, and a live session beside a view that is not Seeking
EndOfTick == op = "app_update" /\ status = "running"
InSeeking == app.view.kind = "Seeking"
Astray == Live(seek_state) /\ ~InSeeking

---------------------------------------------------------------------------
\* the view a tick has when it starts to dispatch: the one its update() left
DispatchView(tr) == tr[2].view

\* C37: the commands a tick executes are, press by press, what the table of
\* the view at the start of the dispatch gives for the button, also after a
\* command of the same tick has changed the view.
C37_TableOfTickStart ==
    [][(op' = "app_update" /\ app.initialized /\ Len(trace') >= 2)
       => /\ Len(Cmds(trace')) <= Len(arg'.pressed)
          /\ status' = "running" => Len(Cmds(trace')) = Len(arg'.pressed)
          /\ \A i \in 1..Len(Cmds(trace')) :
                Cmds(trace')[i].what
                    = get(button_actions(DispatchView(trace')),
                          arg'.pressed[i])]_vars

\* C37 witness: a tick in Seeking with A and then right pressed has run
\* DoneSeeking, which changed the view to SeekBar, and then SeekForward,
\* which sent a seek of the session
C37_Witness ==
    /\ EndOfTick
    /\ arg.pressed = <<"East", "DPadRight">>
    /\ DispatchView(trace).kind = "Seeking"
    /\ Dispatched(trace) = <<"DoneSeeking", "SeekForward">>
    /\ Cmds(trace)[1].view.kind = "SeekBar"
    /\ Len(Cmds(trace)[2].sent) > 0
    /\ Last(Cmds(trace)[2].sent)[1].s = "seek"
    /\ app.view.kind = "SeekBar"

---------------------------------------------------------------------------
\* The application over a whole seek session, with a player that accepts
\* every command.  snap keeps what the player did when StartSeeking last
\* began or resumed a session.
SessionPressed ==
    {<<>>, <<"East">>, <<"South">>, <<"North">>, <<"DPadRight">>,
     <<"East", "DPadRight">>}

SessionInputs == [ev : {"None"}, pressed : SessionPressed]

SessionChoices(g) ==
    [refuse : {"none"},
     t : IF Has(g.pressed, "DPadRight") THEN SeekTargets(player.time, 1)
         ELSE {player.time},
     entry : {"Volume"}]

\* StartSeeking is the command of the first press of the tick and finds no
\* live session
Begins(a) ==
    /\ ~Live(seek_state)
    /\ Cmds(a.trace) # <<>>
    /\ Cmds(a.trace)[1].what = "StartSeeking"

\* most lines that may wait between the ticks of a session, and most
\* properties the ticks of a session may observe: percent-pos and pause for
\* the session, sub-pos and media-title for the draw
MaxSessionLines == 5
MaxSessionObserved == 4

\* App::update with these inputs
AppSession ==
    /\ Running
    /\ IF ~app.initialized
       THEN Ticked(AppW, [ev |-> "None", pressed |-> <<>>])
       ELSE \E g \in SessionInputs : \E c \in SessionChoices(g) :
               \E a \in {app_update(AppW, g, c)} :
                  /\ StoredWithin(a.w, "app_update", g, None, None,
                                  IF Begins(a)
                                  THEN Some([time |-> player.time,
                                             pause |-> player.pause])
                                  ELSE snap,
                                  MaxSessionLines, MaxSessionObserved)
                  /\ app' = [initialized |-> TRUE, view |-> a.view,
                             idle |-> a.idle]
                  /\ trace' = a.trace

SpecSession == InitApp /\ [][AppSession]_vars

---------------------------------------------------------------------------
\* the pause-related commands among the requests reqs
PauseRelated(reqs) ==
    SelectSeq(reqs, LAMBDA r : r \in {PauseCmd, UnpauseCmd,
                                      cycle_property_cmd("pause")})

\* the tick has run DoneSeeking or CancelSeeking and leaves no live session
SessionEnded(tr, st) ==
    /\ \E i \in 1..Len(Cmds(tr)) :
          Cmds(tr)[i].what \in {"DoneSeeking", "CancelSeeking"}
    /\ ~Live(st)

\* C38: when the player was playing as StartSeeking began the session, a
\* tick that ends the session with DoneSeeking or CancelSeeking sends an
\* unpause as its last pause-related command and leaves the player playing.
C38_NeverLeftPaused ==
    [][(/\ op' = "app_update"
        /\ status' = "running"
        /\ IsSome(snap')
        /\ ~Unwrap(snap').pause
        /\ SessionEnded(trace', seek_state'))
       => /\ PauseRelated(sent') # <<>>
          /\ Last(PauseRelated(sent')) = UnpauseCmd
          /\ ~player'.pause]_vars

---------------------------------------------------------------------------
\* the data of the most recent property change of name that the client has
\* read: the last one in the buffer, or else the one update() applied last
MostRecent(name) ==
    IF Changes(event_buffer, name) # <<>>
    THEN Data(Last(Changes(event_buffer, name)).data)
    ELSE Data(observed_properties[name])

\* the call of start_seek makes a session live that was not: a fresh one or
\* a resumed one
Snapshots ==
    /\ op' = "start_seek"
    /\ status' = "running"
    /\ ~Live(seek_state)
    /\ Live(seek_state')

\* C39: when start_seek starts or resumes a session with percent-pos and
\* pause in the cache, the position and the pause state it snapshots are
\* the data of the most recent percent-pos and pause events that the client
\* has read, the events in the buffer that update() has not applied
\* included.
C39_SnapshotMostRecent ==
    [][(Snapshots /\ {"percent-pos", "pause"} \subseteq DOMAIN observed_properties)
       => /\ Unwrap(seek_state').pos = MostRecent("percent-pos")
          /\ Unwrap(seek_state').paused = MostRecent("pause")]_vars

---------------------------------------------------------------------------
\* the cache holds a value of name that deserializes into the type asked
Usable(name) ==
    /\ name \in DOMAIN observed_properties
    /\ IsSome(FromValue(observed_properties[name], TypeOf(name)))

\* the observe requests for name among the requests reqs
ObservesOf(reqs, name) ==
    SelectSeq(reqs, LAMBDA r : r[1].s = "observe_property" /\ r[3].s = name)

\* C40 as stated: the player never gets a second observe request for a name
C40_ObservedOnce == \A n \in PropNames : player.obs[n] <= 1

\* C40 amended: a call of get_property sends one observe request for its
\* name when the cache holds no value of the name that deserializes, and no
\* request at all when it does; so a name is observed again by every call
\* that comes before update() has applied an event of the name.
C40_ObservesOnMiss ==
    [][op' = "get_property"
       => /\ Usable(arg') => sent' = <<>>
          /\ ~Usable(arg') =>
                /\ Len(sent') = 1
                /\ Len(ObservesOf(sent', arg')) = 1]_vars

\* C40 witness: get_property has observed pause a second time, because the
\* event of the first observation was still in the buffer, and has returned
C40_Witness ==
    /\ op = "get_property"
    /\ arg = "pause"
    /\ status = "running"
    /\ Len(ObservesOf(sent, "pause")) = 1
    /\ player.obs["pause"] = 2
    /\ "pause" \notin DOMAIN observed_properties

====
